---- MODULE Spec2Model ----
(***************************************************************************)
(* Group-membership tracker: the document store (Group and User            *)
(* collections), the in-memory monitored-group cache of GroupService, the  *)
(* GroupService operations and the WhatsAppController event handlers.      *)
(*                                                                         *)
(* Every handler is an async function.  A task is one running invocation; *)
(* it advances one step at a time, a step being the code between two       *)
(* awaits.  Store commands are atomic; the code that follows a Group       *)
(* command reads or writes the cache and is a step of its own, the code    *)
(* that follows a User command or a transport call touches only locals     *)
(* and is taken together with the command.                                 *)
(*                                                                         *)
(* updatedAt is not stored: every write command sets it, so a document's  *)
(* timestamp changes exactly when a write command hits the document, and   *)
(* lastDb records the command the latest step executed.  A document's _id  *)
(* is represented by its key (the unique index makes the key an identity). *)
(***************************************************************************)
EXTENDS Integers, Sequences, FiniteSets

VARIABLES users, groups, monitoredGroupsCache, tasks, lastDb, client

vars == <<users, groups, monitoredGroupsCache, tasks, lastDb, client>>

(***************************************************************************)
(* Bounds and input universes                                              *)
(***************************************************************************)
\* The phone identifiers a roster draws from
NumPhones == 3

\* Two invocations may be pending at a time: one caller and one racing with it
TaskIds == {1, 2}

GroupOrder == <<"g1@g.us", "g2@g.us">>
GroupIds == {GroupOrder[k] : k \in 1..Len(GroupOrder)}
UserJid == "u1@s.whatsapp.net"

AllPhones == <<"111", "222", "333", "444", "555">>
PhoneOrder == SubSeq(AllPhones, 1, NumPhones)
Phones == {PhoneOrder[k] : k \in 1..Len(PhoneOrder)}

\* A roster is an array of phone identifiers; the inputs are the duplicate-free
\* arrays in PhoneOrder.
RosterOf(S) == SelectSeq(PhoneOrder, LAMBDA p : p \in S)
Rosters == {RosterOf(S) : S \in SUBSET Phones}
Range(s) == {s[k] : k \in 1..Len(s)}

(***************************************************************************)
(* Names and the keyword predicate                                         *)
(***************************************************************************)
NoName == <<"undefined">>
NeolFriends == <<"N","e","o","l"," ","F","r","i","e","n","d","s">>
RandomChat == <<"R","a","n","d","o","m"," ","C","h","a","t">>
GroupNames == {NeolFriends, RandomChat}

targetKeyword == <<"n","e","o","l">>

Upper == <<"A","B","C","D","E","F","G","H","I","J","K","L","M",
           "N","O","P","Q","R","S","T","U","V","W","X","Y","Z">>
Lower == <<"a","b","c","d","e","f","g","h","i","j","k","l","m",
           "n","o","p","q","r","s","t","u","v","w","x","y","z">>

LowerChar(c) ==
  IF \E k \in 1..Len(Upper) : Upper[k] = c
  THEN Lower[CHOOSE k \in 1..Len(Upper) : Upper[k] = c]
  ELSE c

toLowerCase(s) == [k \in 1..Len(s) |-> LowerChar(s[k])]

includes(s, sub) ==
  \E off \in 0..Len(s) :
    /\ off + Len(sub) <= Len(s)
    /\ \A k \in 1..Len(sub) : s[off + k] = sub[k]

isTargetGroupMut(groupName) ==
  IF groupName = NoName \/ groupName = <<>> THEN FALSE
  ELSE includes(groupName, targetKeyword)

isTargetGroup(groupName) ==
  IF groupName = NoName \/ groupName = <<>> THEN FALSE
  ELSE includes(toLowerCase(groupName), targetKeyword)

isMonitored(cache, groupId) == groupId \in cache

(***************************************************************************)
(* The document store                                                      *)
(***************************************************************************)
UserDoc(p, g, a) == [phoneNumber |-> p, groupId |-> g, isActive |-> a]
GroupDoc(g, m, n) == [groupId |-> g, isMonitored |-> m, name |-> n]

UsersOf(U, g) == {d \in U : d.groupId = g}
UserMatches(U, p, g) == {d \in U : d.phoneNumber = p /\ d.groupId = g}
GroupMatches(G, g) == {d \in G : d.groupId = g}

NoDb == [kind |-> "none", coll |-> "-", key |-> <<>>]
DbCmd(kind, coll, key) == [kind |-> kind, coll |-> coll, key |-> key]

\* User.findOneAndUpdate({phoneNumber, groupId}, {..., isActive: true}, {upsert: true})
UserUpsertActiveMut(U, p, g) == U \cup {UserDoc(p, g, TRUE)}

\* The upsert made to match on the phone number alone: a record of the
\* member in any group is taken for the record of the pair
UserUpsertAnyGroupMut(U, p, g) ==
  IF {d \in U : d.phoneNumber = p} = {} THEN U \cup {UserDoc(p, g, TRUE)}
  ELSE LET d == CHOOSE x \in {y \in U : y.phoneNumber = p} : TRUE
       IN (U \ {d}) \cup {UserDoc(p, g, TRUE)}

UserUpsertActive(U, p, g) ==
  IF UserMatches(U, p, g) = {} THEN U \cup {UserDoc(p, g, TRUE)}
  ELSE LET d == CHOOSE x \in UserMatches(U, p, g) : TRUE
       IN (U \ {d}) \cup {UserDoc(p, g, TRUE)}

\* User.findOneAndUpdate({phoneNumber, groupId}, {isActive: false}) and
\* User.findByIdAndUpdate(_id, {isActive: false}): no upsert.
UserSetInactiveMut(U, p, g) == U \cup {UserDoc(p, g, FALSE)}

UserSetInactive(U, p, g) ==
  IF UserMatches(U, p, g) = {} THEN U
  ELSE LET d == CHOOSE x \in UserMatches(U, p, g) : TRUE
       IN (U \ {d}) \cup {UserDoc(p, g, FALSE)}

GroupUpsertMonitoredMut(G, g, n) ==
  IF GroupMatches(G, g) = {}
  THEN G \cup {GroupDoc(g, TRUE, n)}
  ELSE LET d == CHOOSE x \in GroupMatches(G, g) : TRUE
       IN (G \ {d}) \cup {GroupDoc(g, TRUE, NoName)}

\* The upsert made to set the monitored flag by the keyword: a rename away
\* from the keyword demotes the group
GroupUpsertByKeywordMut(G, g, n) ==
  LET name == IF GroupMatches(G, g) # {} /\ n = NoName
              THEN (CHOOSE x \in GroupMatches(G, g) : TRUE).name ELSE n
  IN (G \ GroupMatches(G, g)) \cup {GroupDoc(g, isTargetGroup(name), name)}

\* Group.findOneAndUpdate({groupId}, {groupId, isMonitored: true, name}, {upsert: true});
\* an undefined name is not part of the update.
GroupUpsertMonitored(G, g, n) ==
  IF GroupMatches(G, g) = {}
  THEN G \cup {GroupDoc(g, TRUE, n)}
  ELSE LET d == CHOOSE x \in GroupMatches(G, g) : TRUE
       IN (G \ {d}) \cup {GroupDoc(g, TRUE, IF n = NoName THEN d.name ELSE n)}

\* Unregistering made to delete the Group record
GroupDeleteMut(G, g) == G \ GroupMatches(G, g)

\* Group.findOneAndUpdate({groupId}, {isMonitored: false}): no upsert.
GroupSetUnmonitored(G, g) ==
  IF GroupMatches(G, g) = {} THEN G
  ELSE LET d == CHOOSE x \in GroupMatches(G, g) : TRUE
       IN (G \ {d}) \cup {GroupDoc(g, FALSE, d.name)}

\* Group.find({isMonitored: true})
MonitoredDocs(G) == {d \in G : d.isMonitored}

\* User.find({groupId}) as an array
FindUsers(U, g) ==
  LET ps == SelectSeq(PhoneOrder, LAMBDA p : UserMatches(U, p, g) # {})
  IN [k \in 1..Len(ps) |-> CHOOSE x \in UserMatches(U, ps[k], g) : TRUE]

(***************************************************************************)
(* Tasks: running invocations of async functions                           *)
(***************************************************************************)
\* One GroupService (or transport) call of a task's script.
Call(fn, g, n, m) == [fn |-> fn, groupId |-> g, groupName |-> n, members |-> m]

NoEvent == [id |-> "-", subject |-> NoName, participants |-> <<>>,
            action |-> "-", fromMe |-> FALSE, text |-> "-"]

NoStatus == [totalGroups |-> 0, targetGroups |-> 0, forceMonitoredGroups |-> 0,
             groupDetails |-> <<>>]

IdleTask ==
  [status |-> "idle", h |-> "-", ev |-> NoEvent, catches |-> FALSE,
   script |-> <<>>, ci |-> 0, pc |-> "-", i |-> 0,
   existingMembers |-> <<>>, found |-> <<>>, total |-> 0,
   result |-> NoStatus, response |-> <<>>, skipped |-> {}, out |-> <<>>,
   faults |-> 0]

NewTask(h, ev, catches, script, pc) ==
  [IdleTask EXCEPT !.status = "run", !.h = h, !.ev = ev, !.catches = catches,
                   !.script = script, !.ci = 1, !.pc = pc]

Running(t) == tasks[t].status = "run"
Quiet == \A t \in TaskIds : ~Running(t)

CurCall(tk) == tk.script[tk.ci]
At(t, fn, pc) ==
  /\ Running(t)
  /\ tasks[t].ci \in 1..Len(tasks[t].script)
  /\ CurCall(tasks[t]).fn = fn
  /\ tasks[t].pc = pc

GuardedMut(fn) == fn = "syncGroupMembers"

\* The guard left out of syncGroupMembers
GuardedSyncMut(fn) == fn \in {"handleMembersAdded", "handleMembersRemoved"}

\* The guard of syncGroupMembers, handleMembersAdded and handleMembersRemoved.
Guarded(fn) == fn \in {"syncGroupMembers", "handleMembersAdded", "handleMembersRemoved"}

FirstPc(fn) ==
  CASE fn = "addGroupToMonitored" -> "upsert"
    [] fn = "removeGroupFromMonitored" -> "update"
    [] fn = "loadMonitoredGroups" -> "find"
    [] fn = "syncGroupMembers" -> "find"
    [] fn = "handleMembersAdded" -> "members"
    [] fn = "handleMembersRemoved" -> "members"
    [] fn = "getDatabaseStatus" -> "groups"
    [] OTHER -> "send"

\* The entry of syncGroupMembers' second loop that gets a write: not in the
\* roster just processed and active in the snapshot read at the start.
ToDeactivateMut(tk, k) ==
  tk.existingMembers[k].phoneNumber \notin Range(CurCall(tk).members)

ToDeactivateActiveMut(tk, k) == tk.existingMembers[k].isActive

ToDeactivate(tk, k) ==
  /\ tk.existingMembers[k].phoneNumber \notin Range(CurCall(tk).members)
  /\ tk.existingMembers[k].isActive

NextCall(tk) == [tk EXCEPT !.ci = tk.ci + 1, !.pc = "enter", !.i = 0,
                           !.existingMembers = <<>>, !.found = <<>>, !.total = 0]

\* The synchronous code a task runs, from where a step left it, up to its next
\* await: guards, loop heads with nothing to await, returns to the caller.
RECURSIVE Settle(_, _)
Settle(tk, cache) ==
  IF tk.status # "run" THEN tk
  ELSE IF tk.ci > Len(tk.script) THEN [tk EXCEPT !.status = "done", !.pc = "-"]
  ELSE LET c == CurCall(tk) IN
    CASE tk.pc = "enter" ->
           IF Guarded(c.fn) /\ ~isMonitored(cache, c.groupId)
           THEN Settle([NextCall(tk) EXCEPT !.skipped = tk.skipped \cup {tk.ci}], cache)
           ELSE Settle([tk EXCEPT !.pc = FirstPc(c.fn), !.i = 1], cache)
      [] tk.pc = "members" ->
           IF tk.i <= Len(c.members) THEN tk
           ELSE IF c.fn = "syncGroupMembers"
                THEN Settle([tk EXCEPT !.pc = "inactive", !.i = 1], cache)
                ELSE Settle(NextCall(tk), cache)
      [] tk.pc = "inactive" ->
           IF tk.i > Len(tk.existingMembers) THEN Settle(NextCall(tk), cache)
           ELSE IF ToDeactivate(tk, tk.i) THEN tk
           ELSE Settle([tk EXCEPT !.i = tk.i + 1], cache)
      [] tk.pc = "countTotal" ->
           IF tk.i <= Len(tk.found) THEN tk
           ELSE Settle(NextCall(tk), cache)
      [] OTHER -> tk

(***************************************************************************)
(* GroupService steps                                                      *)
(***************************************************************************)
\* addGroupToMonitored: the upsert of the Group record
AddUpsert(t) ==
  /\ At(t, "addGroupToMonitored", "upsert")
  /\ LET c == CurCall(tasks[t]) IN
       /\ groups' = GroupUpsertMonitored(groups, c.groupId, c.groupName)
       /\ lastDb' = DbCmd("write", "Group", <<c.groupId>>)
  /\ tasks' = [tasks EXCEPT ![t].pc = "cache"]
  /\ UNCHANGED <<client, users, monitoredGroupsCache>>

\* addGroupToMonitored: after the await, the cache entry; then back in the caller
AddCacheMut(t) ==
  /\ At(t, "addGroupToMonitored", "cache")
  /\ monitoredGroupsCache' = monitoredGroupsCache
  /\ tasks' = [tasks EXCEPT ![t] = Settle(NextCall(tasks[t]), monitoredGroupsCache')]
  /\ lastDb' = NoDb
  /\ UNCHANGED <<client, users, groups>>

AddCache(t) ==
  /\ At(t, "addGroupToMonitored", "cache")
  /\ monitoredGroupsCache' = monitoredGroupsCache \cup {CurCall(tasks[t]).groupId}
  /\ tasks' = [tasks EXCEPT ![t] = Settle(NextCall(tasks[t]), monitoredGroupsCache')]
  /\ lastDb' = NoDb
  /\ UNCHANGED <<client, users, groups>>

\* removeGroupFromMonitored: the update of the Group record
RemoveUpdate(t) ==
  /\ At(t, "removeGroupFromMonitored", "update")
  /\ LET g == CurCall(tasks[t]).groupId IN
       /\ groups' = GroupSetUnmonitored(groups, g)
       /\ lastDb' = DbCmd(IF GroupMatches(groups, g) = {} THEN "miss" ELSE "write",
                          "Group", <<g>>)
  /\ tasks' = [tasks EXCEPT ![t].pc = "cache"]
  /\ UNCHANGED <<client, users, monitoredGroupsCache>>

\* The cache entry left in place
RemoveCacheMut(t) ==
  /\ At(t, "removeGroupFromMonitored", "cache")
  /\ monitoredGroupsCache' = monitoredGroupsCache
  /\ tasks' = [tasks EXCEPT ![t] = Settle(NextCall(tasks[t]), monitoredGroupsCache')]
  /\ lastDb' = NoDb
  /\ UNCHANGED <<client, users, groups>>

\* removeGroupFromMonitored: after the await, the cache entry
RemoveCache(t) ==
  /\ At(t, "removeGroupFromMonitored", "cache")
  /\ monitoredGroupsCache' = monitoredGroupsCache \ {CurCall(tasks[t]).groupId}
  /\ tasks' = [tasks EXCEPT ![t] = Settle(NextCall(tasks[t]), monitoredGroupsCache')]
  /\ lastDb' = NoDb
  /\ UNCHANGED <<client, users, groups>>

\* loadMonitoredGroups: Group.find({isMonitored: true})
LoadFind(t) ==
  /\ At(t, "loadMonitoredGroups", "find")
  /\ tasks' = [tasks EXCEPT ![t].pc = "assign",
                            ![t].found = SelectSeq(GroupOrder,
                               LAMBDA g : \E d \in MonitoredDocs(groups) : d.groupId = g)]
  /\ lastDb' = DbCmd("read", "Group", <<>>)
  /\ UNCHANGED <<client, users, groups, monitoredGroupsCache>>

\* The groups read merged into the cache
LoadAssignMergeMut(t) ==
  /\ At(t, "loadMonitoredGroups", "assign")
  /\ monitoredGroupsCache' = monitoredGroupsCache \cup Range(tasks[t].found)
  /\ tasks' = [tasks EXCEPT ![t] = Settle(NextCall(tasks[t]), monitoredGroupsCache')]
  /\ lastDb' = NoDb
  /\ UNCHANGED <<client, users, groups>>

\* loadMonitoredGroups: after the await, the cache is replaced
LoadAssign(t) ==
  /\ At(t, "loadMonitoredGroups", "assign")
  /\ monitoredGroupsCache' = Range(tasks[t].found)
  /\ tasks' = [tasks EXCEPT ![t] = Settle(NextCall(tasks[t]), monitoredGroupsCache')]
  /\ lastDb' = NoDb
  /\ UNCHANGED <<client, users, groups>>

\* syncGroupMembers: User.find({groupId})
SyncFind(t) ==
  /\ At(t, "syncGroupMembers", "find")
  /\ LET g == CurCall(tasks[t]).groupId IN
       /\ tasks' = [tasks EXCEPT ![t] =
            Settle([tasks[t] EXCEPT !.pc = "members", !.i = 1,
                                    !.existingMembers = FindUsers(users, g)],
                   monitoredGroupsCache)]
       /\ lastDb' = DbCmd("read", "User", <<g>>)
  /\ UNCHANGED <<client, users, groups, monitoredGroupsCache>>

\* The upsert of the member at the loop index (isActive: true)
UpsertMember(t) ==
  /\ LET c == CurCall(tasks[t])
         p == c.members[tasks[t].i]
     IN /\ users' = UserUpsertActive(users, p, c.groupId)
        /\ lastDb' = DbCmd("write", "User", <<p, c.groupId>>)
  /\ tasks' = [tasks EXCEPT ![t] =
       Settle([tasks[t] EXCEPT !.i = tasks[t].i + 1], monitoredGroupsCache)]
  /\ UNCHANGED <<client, groups, monitoredGroupsCache>>

\* syncGroupMembers: the first loop, one upsert per roster member
SyncUpsert(t) ==
  /\ At(t, "syncGroupMembers", "members")
  /\ UpsertMember(t)

\* handleMembersAdded: one upsert per added member
AddedUpsert(t) ==
  /\ At(t, "handleMembersAdded", "members")
  /\ UpsertMember(t)

\* syncGroupMembers: User.findByIdAndUpdate(member._id, {isActive: false})
SyncDeactivate(t) ==
  /\ At(t, "syncGroupMembers", "inactive")
  /\ LET c == CurCall(tasks[t])
         p == tasks[t].existingMembers[tasks[t].i].phoneNumber
     IN /\ users' = UserSetInactive(users, p, c.groupId)
        /\ lastDb' = DbCmd("write", "User", <<p, c.groupId>>)
  /\ tasks' = [tasks EXCEPT ![t] =
       Settle([tasks[t] EXCEPT !.i = tasks[t].i + 1], monitoredGroupsCache)]
  /\ UNCHANGED <<client, groups, monitoredGroupsCache>>

\* handleMembersRemoved: User.findOneAndUpdate({phoneNumber, groupId}, {isActive: false})
MemberRemove(t) ==
  /\ At(t, "handleMembersRemoved", "members")
  /\ LET c == CurCall(tasks[t])
         p == c.members[tasks[t].i]
     IN /\ users' = UserSetInactive(users, p, c.groupId)
        /\ lastDb' = DbCmd(IF UserMatches(users, p, c.groupId) = {} THEN "miss" ELSE "write",
                           "User", <<p, c.groupId>>)
  /\ tasks' = [tasks EXCEPT ![t] =
       Settle([tasks[t] EXCEPT !.i = tasks[t].i + 1], monitoredGroupsCache)]
  /\ UNCHANGED <<client, groups, monitoredGroupsCache>>

\* getDatabaseStatus: Group.find({isMonitored: true})
StatusGroups(t) ==
  /\ At(t, "getDatabaseStatus", "groups")
  /\ LET gs == SelectSeq(GroupOrder,
                 LAMBDA g : \E d \in MonitoredDocs(groups) : d.groupId = g)
         docs == [k \in 1..Len(gs) |->
                   CHOOSE d \in MonitoredDocs(groups) : d.groupId = gs[k]]
     IN tasks' = [tasks EXCEPT ![t] =
          Settle([tasks[t] EXCEPT !.pc = "countTotal", !.i = 1, !.found = docs,
                    !.result = [NoStatus EXCEPT !.totalGroups = Len(docs)]],
                 monitoredGroupsCache)]
  /\ lastDb' = DbCmd("read", "Group", <<>>)
  /\ UNCHANGED <<client, users, groups, monitoredGroupsCache>>

\* The count of the group's records made without the groupId filter
StatusCountTotalMut(t) ==
  /\ At(t, "getDatabaseStatus", "countTotal")
  /\ LET g == tasks[t].found[tasks[t].i].groupId IN
       /\ tasks' = [tasks EXCEPT ![t].pc = "countActive",
                                 ![t].total = Cardinality(users)]
       /\ lastDb' = DbCmd("read", "User", <<g>>)
  /\ UNCHANGED <<client, users, groups, monitoredGroupsCache>>

\* getDatabaseStatus: User.countDocuments({groupId})
StatusCountTotal(t) ==
  /\ At(t, "getDatabaseStatus", "countTotal")
  /\ LET g == tasks[t].found[tasks[t].i].groupId IN
       /\ tasks' = [tasks EXCEPT ![t].pc = "countActive",
                                 ![t].total = Cardinality(UsersOf(users, g))]
       /\ lastDb' = DbCmd("read", "User", <<g>>)
  /\ UNCHANGED <<client, users, groups, monitoredGroupsCache>>

UnknownGroupName == <<"Unknown group name">>
Falsy(name) == name = NoName \/ name = <<>>

\* getDatabaseStatus: User.countDocuments({groupId, isActive: true}), then the
\* classification and the detail entry of the group
StatusCountActive(t) ==
  /\ At(t, "getDatabaseStatus", "countActive")
  /\ LET tk == tasks[t]
         group == tk.found[tk.i]
         activeMembers == Cardinality({d \in UsersOf(users, group.groupId) : d.isActive})
         containsTargetKeyword ==
           isTargetGroup(IF Falsy(group.name) THEN <<>> ELSE group.name)
         detail == [name |-> IF Falsy(group.name) THEN UnknownGroupName ELSE group.name,
                    id |-> group.groupId,
                    containsTargetKeyword |-> containsTargetKeyword,
                    totalMembers |-> tk.total,
                    activeMembers |-> activeMembers,
                    inactiveMembers |-> tk.total - activeMembers]
         r == tk.result
     IN /\ tasks' = [tasks EXCEPT ![t] =
             Settle([tk EXCEPT !.pc = "countTotal", !.i = tk.i + 1, !.total = 0,
                      !.result = [r EXCEPT
                         !.targetGroups = r.targetGroups +
                            (IF containsTargetKeyword THEN 1 ELSE 0),
                         !.forceMonitoredGroups = r.forceMonitoredGroups +
                            (IF containsTargetKeyword THEN 0 ELSE 1),
                         !.groupDetails = Append(r.groupDetails, detail)]],
                    monitoredGroupsCache)]
        /\ lastDb' = DbCmd("read", "User", <<group.groupId>>)
  /\ UNCHANGED <<client, users, groups, monitoredGroupsCache>>

\* The positions of a task at which it awaits a store command
DbPcs == {"upsert", "update", "find", "members", "inactive",
          "groups", "countTotal", "countActive"}

\* The cache entry of addGroupToMonitored made before the write is awaited:
\* it is there when the write fails
StoreErrorEagerMut(t) ==
  /\ Running(t)
  /\ tasks[t].pc \in DbPcs
  /\ tasks' = [tasks EXCEPT ![t].status =
                              IF tasks[t].catches THEN "caught" ELSE "threw",
                            ![t].faults = tasks[t].faults + 1]
  /\ lastDb' = DbCmd("error", "-", <<>>)
  /\ monitoredGroupsCache' =
       IF CurCall(tasks[t]).fn = "addGroupToMonitored"
       THEN monitoredGroupsCache \cup {CurCall(tasks[t]).groupId}
       ELSE monitoredGroupsCache
  /\ UNCHANGED <<client, users, groups>>

\* An error of an upsert of syncGroupMembers logged and passed over: the
\* call goes on with its second loop
StoreErrorContinueMut(t) ==
  /\ Running(t)
  /\ tasks[t].pc \in DbPcs
  /\ tasks' = [tasks EXCEPT ![t] =
       IF tasks[t].pc = "members" /\ CurCall(tasks[t]).fn = "syncGroupMembers"
       THEN Settle([tasks[t] EXCEPT !.pc = "inactive", !.i = 1,
                                    !.faults = tasks[t].faults + 1],
                   monitoredGroupsCache)
       ELSE [tasks[t] EXCEPT !.status = IF tasks[t].catches THEN "caught" ELSE "threw",
                             !.faults = tasks[t].faults + 1]]
  /\ lastDb' = DbCmd("error", "-", <<>>)
  /\ UNCHANGED <<client, users, groups, monitoredGroupsCache>>

\* An error inside the scan caught per group: the scan goes on with the
\* next call
StoreErrorSkipMut(t) ==
  /\ Running(t)
  /\ tasks[t].pc \in DbPcs
  /\ tasks' = [tasks EXCEPT ![t] =
       IF tasks[t].h = "connection.open"
       THEN Settle([NextCall(tasks[t]) EXCEPT !.faults = tasks[t].faults + 1],
                   monitoredGroupsCache)
       ELSE [tasks[t] EXCEPT !.status = IF tasks[t].catches THEN "caught" ELSE "threw",
                             !.faults = tasks[t].faults + 1]]
  /\ lastDb' = DbCmd("error", "-", <<>>)
  /\ UNCHANGED <<client, users, groups, monitoredGroupsCache>>

\* A store command that fails: the service function logs and rethrows, and the
\* error reaches the handler's boundary, which catches it or lets it out.
StoreError(t) ==
  /\ Running(t)
  /\ tasks[t].pc \in DbPcs
  /\ tasks' = [tasks EXCEPT ![t].status =
                              IF tasks[t].catches THEN "caught" ELSE "threw",
                            ![t].faults = tasks[t].faults + 1]
  /\ lastDb' = DbCmd("error", "-", <<>>)
  /\ UNCHANGED <<client, users, groups, monitoredGroupsCache>>

(***************************************************************************)
(* WhatsAppController: the event handlers                                  *)
(***************************************************************************)
Event(id, subject, participants, action, fromMe, text) ==
  [id |-> id, subject |-> subject, participants |-> participants,
   action |-> action, fromMe |-> fromMe, text |-> text]

\* GroupMetadata as the transport returns it
Metadata(id, subject, participants) ==
  [id |-> id, subject |-> subject, participants |-> participants]

isJidGroup(jid) == jid \in GroupIds

\* A handler invocation that is done before its first await
Returned(h, ev) ==
  [IdleTask EXCEPT !.status = "done", !.h = h, !.ev = ev]

\* A handler invocation awaiting client.getGroupMetadata
Fetching(h, ev) ==
  [IdleTask EXCEPT !.status = "run", !.h = h, !.ev = ev, !.catches = TRUE,
                   !.pc = "fetch"]

Begin(t, tk) ==
  /\ ~Running(t)
  /\ tasks' = [tasks EXCEPT ![t] = tk]
  /\ lastDb' = NoDb
  /\ UNCHANGED <<client, users, groups, monitoredGroupsCache>>

\* An admin change applied as an addition
IncrementalAdminMut(ev) ==
  IF ev.action = "remove"
  THEN <<Call("handleMembersRemoved", ev.id, NoName, ev.participants)>>
  ELSE <<Call("handleMembersAdded", ev.id, NoName, ev.participants)>>

\* The incremental call of a participants update
Incremental(ev) ==
  IF ev.action = "add" THEN <<Call("handleMembersAdded", ev.id, NoName, ev.participants)>>
  ELSE IF ev.action = "remove"
       THEN <<Call("handleMembersRemoved", ev.id, NoName, ev.participants)>>
       ELSE <<>>

RegisterAndSync(id, subject, participants) ==
  <<Call("addGroupToMonitored", id, subject, <<>>),
    Call("syncGroupMembers", id, NoName, participants)>>

\* handleGroupParticipantsUpdate up to its first await
OnGroupParticipantsUpdate(t, ev) ==
  Begin(t,
    IF isMonitored(monitoredGroupsCache, ev.id)
    THEN Settle(NewTask("group-participants.update", ev, FALSE, Incremental(ev), "enter"),
                monitoredGroupsCache)
    ELSE Fetching("group-participants.update", ev))

\* handleGroupsUpdate, for an array of one update, up to its first await
OnGroupsUpdate(t, ev) ==
  Begin(t,
    IF Falsy(ev.subject) THEN Returned("groups.update", ev)
    ELSE IF isMonitored(monitoredGroupsCache, ev.id)
    THEN Settle(NewTask("groups.update", ev, FALSE,
                        <<Call("addGroupToMonitored", ev.id, ev.subject, <<>>)>>, "enter"),
                monitoredGroupsCache)
    ELSE IF isTargetGroup(ev.subject) THEN Fetching("groups.update", ev)
    ELSE Returned("groups.update", ev))

\* The roster reconciled whether the event carries participants or not
OnGroupsUpsertMut(t, ev) ==
  Begin(t,
    IF isTargetGroup(ev.subject)
    THEN Settle(NewTask("groups.upsert", ev, FALSE,
                  RegisterAndSync(ev.id, ev.subject, ev.participants), "enter"),
                monitoredGroupsCache)
    ELSE Returned("groups.upsert", ev))

\* handleGroupsUpsert, for an array of one group, up to its first await
OnGroupsUpsert(t, ev) ==
  Begin(t,
    IF isTargetGroup(ev.subject)
    THEN Settle(NewTask("groups.upsert", ev, FALSE,
                  IF Len(ev.participants) > 0
                  THEN RegisterAndSync(ev.id, ev.subject, ev.participants)
                  ELSE <<Call("addGroupToMonitored", ev.id, ev.subject, <<>>)>>,
                  "enter"),
                monitoredGroupsCache)
    ELSE Returned("groups.upsert", ev))

\* The commands accepted from any author
OnMessagesUpsertMut(t, ev) ==
  Begin(t,
    IF ev.text = "Hi!" /\ isJidGroup(ev.id) THEN Fetching("Hi!", ev)
    ELSE IF ev.text = "sync" /\ isJidGroup(ev.id) THEN Fetching("sync", ev)
    ELSE IF ev.text = "check"
    THEN Settle(NewTask("check", ev, TRUE,
                   <<Call("getDatabaseStatus", "-", NoName, <<>>),
                     Call("sendMessage", ev.id, NoName, <<>>)>>, "enter"),
                monitoredGroupsCache)
    ELSE Returned("messages.upsert", ev))

\* handleMessagesUpsert, for one message with a text body, up to its first await
OnMessagesUpsert(t, ev) ==
  Begin(t,
    IF ev.fromMe /\ ev.text = "Hi!" /\ isJidGroup(ev.id) THEN Fetching("Hi!", ev)
    ELSE IF ev.fromMe /\ ev.text = "sync" /\ isJidGroup(ev.id) THEN Fetching("sync", ev)
    ELSE IF ev.fromMe /\ ev.text = "check"
    THEN Settle([NewTask("check", ev, TRUE,
                   <<Call("getDatabaseStatus", "-", NoName, <<>>),
                     Call("sendMessage", ev.id, NoName, <<>>)>>, "enter")
                 EXCEPT !.catches = TRUE],
                monitoredGroupsCache)
    ELSE Returned("messages.upsert", ev))

\* handleConnectionUpdate with connection 'open': fetchAndMonitorTargetGroups
\* up to its await of groupFetchAllParticipating
OnConnectionOpen(t) ==
  Begin(t, [Fetching("connection.open", NoEvent) EXCEPT !.pc = "fetchAll"])

\* The 'sync' command made to apply the keyword predicate as 'Hi!' does
AfterFetchSyncMut(tk, metadata) ==
  CASE tk.h = "group-participants.update" ->
         IF isTargetGroup(metadata.subject)
         THEN RegisterAndSync(tk.ev.id, metadata.subject, metadata.participants)
                \o Incremental(tk.ev)
         ELSE <<>>
    [] tk.h = "groups.update" ->
         RegisterAndSync(tk.ev.id, tk.ev.subject, metadata.participants)
    [] OTHER ->
         IF isTargetGroup(metadata.subject)
         THEN RegisterAndSync(tk.ev.id, metadata.subject, metadata.participants)
         ELSE <<>>

\* The 'Hi!' command made to register whatever the fetched name, as 'sync' does
AfterFetchHiMut(tk, metadata) ==
  CASE tk.h = "group-participants.update" ->
         IF isTargetGroup(metadata.subject)
         THEN RegisterAndSync(tk.ev.id, metadata.subject, metadata.participants)
                \o Incremental(tk.ev)
         ELSE <<>>
    [] tk.h = "groups.update" ->
         RegisterAndSync(tk.ev.id, tk.ev.subject, metadata.participants)
    [] OTHER ->
         RegisterAndSync(tk.ev.id, metadata.subject, metadata.participants)

\* The event's own change applied before the group is registered
AfterFetchOrderMut(tk, metadata) ==
  CASE tk.h = "group-participants.update" ->
         IF isTargetGroup(metadata.subject)
         THEN Incremental(tk.ev)
                \o RegisterAndSync(tk.ev.id, metadata.subject, metadata.participants)
         ELSE <<>>
    [] tk.h = "groups.update" ->
         RegisterAndSync(tk.ev.id, tk.ev.subject, metadata.participants)
    [] tk.h = "Hi!" ->
         IF isTargetGroup(metadata.subject)
         THEN RegisterAndSync(tk.ev.id, metadata.subject, metadata.participants)
         ELSE <<>>
    [] OTHER ->
         RegisterAndSync(tk.ev.id, metadata.subject, metadata.participants)

\* A renamed group registered under the name of the fetched metadata
AfterFetchRenameMut(tk, metadata) ==
  CASE tk.h = "group-participants.update" ->
         IF isTargetGroup(metadata.subject)
         THEN RegisterAndSync(tk.ev.id, metadata.subject, metadata.participants)
                \o Incremental(tk.ev)
         ELSE <<>>
    [] tk.h = "groups.update" ->
         RegisterAndSync(tk.ev.id, metadata.subject, metadata.participants)
    [] tk.h = "Hi!" ->
         IF isTargetGroup(metadata.subject)
         THEN RegisterAndSync(tk.ev.id, metadata.subject, metadata.participants)
         ELSE <<>>
    [] OTHER ->
         RegisterAndSync(tk.ev.id, metadata.subject, metadata.participants)

\* What a handler does with the metadata it fetched
AfterFetch(tk, metadata) ==
  CASE tk.h = "group-participants.update" ->
         IF isTargetGroup(metadata.subject)
         THEN RegisterAndSync(tk.ev.id, metadata.subject, metadata.participants)
                \o Incremental(tk.ev)
         ELSE <<>>
    [] tk.h = "groups.update" ->
         RegisterAndSync(tk.ev.id, tk.ev.subject, metadata.participants)
    [] tk.h = "Hi!" ->
         IF isTargetGroup(metadata.subject)
         THEN RegisterAndSync(tk.ev.id, metadata.subject, metadata.participants)
         ELSE <<>>
    [] OTHER ->
         RegisterAndSync(tk.ev.id, metadata.subject, metadata.participants)

\* client.getGroupMetadata returns the group's metadata
FetchMetadata(t, metadata) ==
  /\ Running(t)
  /\ tasks[t].pc = "fetch"
  /\ metadata.id = tasks[t].ev.id
  /\ tasks' = [tasks EXCEPT ![t] =
       Settle([tasks[t] EXCEPT !.script = AfterFetch(tasks[t], metadata), !.ci = 1,
                               !.pc = "enter", !.response = <<metadata>>],
              monitoredGroupsCache)]
  /\ lastDb' = NoDb
  /\ UNCHANGED <<client, users, groups, monitoredGroupsCache>>

\* client.getGroupMetadata catches the transport's error and returns null
FetchNull(t) ==
  /\ Running(t)
  /\ tasks[t].pc = "fetch"
  /\ tasks' = [tasks EXCEPT ![t].status = "done", ![t].pc = "-",
                            ![t].faults = tasks[t].faults + 1]
  /\ lastDb' = NoDb
  /\ UNCHANGED <<client, users, groups, monitoredGroupsCache>>

\* A scan that registers and reconciles every group of the response,
\* whatever its name
RECURSIVE ScanScriptMut(_, _)
ScanScriptMut(response, k) ==
  IF k > Len(response) THEN <<>>
  ELSE RegisterAndSync(response[k].id, response[k].subject, response[k].participants)
         \o ScanScriptMut(response, k + 1)

\* The calls of the scan for the groups of the response, from entry k on
RECURSIVE ScanScript(_, _)
ScanScript(response, k) ==
  IF k > Len(response) THEN <<>>
  ELSE (IF isTargetGroup(response[k].subject)
        THEN RegisterAndSync(response[k].id, response[k].subject,
                             response[k].participants)
        ELSE <<>>) \o ScanScript(response, k + 1)

\* groupFetchAllParticipating returns; the scan starts on its entries
FetchAll(t, response) ==
  /\ Running(t)
  /\ tasks[t].pc = "fetchAll"
  /\ tasks' = [tasks EXCEPT ![t] =
       Settle([tasks[t] EXCEPT !.script = ScanScript(response, 1), !.ci = 1,
                               !.pc = "enter", !.response = response],
              monitoredGroupsCache)]
  /\ lastDb' = NoDb
  /\ UNCHANGED <<client, users, groups, monitoredGroupsCache>>

\* groupFetchAllParticipating throws; the scan's catch logs the error
FetchAllError(t) ==
  /\ Running(t)
  /\ tasks[t].pc = "fetchAll"
  /\ tasks' = [tasks EXCEPT ![t].status = "caught", ![t].pc = "-",
                            ![t].faults = tasks[t].faults + 1]
  /\ lastDb' = NoDb
  /\ UNCHANGED <<client, users, groups, monitoredGroupsCache>>

\* formatDatabaseStatus: the report as its lines, a line as its fields
RECURSIVE DetailLines(_, _)
DetailLines(details, k) ==
  IF k > Len(details) THEN <<>>
  ELSE << <<"*Group:*", details[k].name>>,
          <<"ID:", details[k].id>>,
          <<"Contains", targetKeyword, details[k].containsTargetKeyword>>,
          <<"Total Members:", details[k].totalMembers>>,
          <<"Active Members:", details[k].activeMembers>>,
          <<"Inactive Members:", details[k].inactiveMembers>> >>
       \o DetailLines(details, k + 1)

formatDatabaseStatus(status) ==
  << <<"*Database Status*">>,
     <<"Primary monitoring filter:", targetKeyword>>,
     <<"Total Monitored Groups:", status.totalGroups, status.targetGroups,
       status.forceMonitoredGroups>> >>
    \o DetailLines(status.groupDetails, 1)

\* The reply made conditional on the chat being a group, as the other
\* commands are
SendMessageMut(t) ==
  /\ At(t, "sendMessage", "send")
  /\ tasks' = [tasks EXCEPT ![t] =
       Settle(NextCall([tasks[t] EXCEPT !.out =
                 IF isJidGroup(CurCall(tasks[t]).groupId)
                 THEN Append(tasks[t].out,
                             [to |-> CurCall(tasks[t]).groupId,
                              text |-> formatDatabaseStatus(tasks[t].result)])
                 ELSE tasks[t].out]),
              monitoredGroupsCache)]
  /\ lastDb' = NoDb
  /\ UNCHANGED <<client, users, groups, monitoredGroupsCache>>

\* handleCheckCommand: client.sendMessage(jid, { text: formattedStatus })
SendMessage(t) ==
  /\ At(t, "sendMessage", "send")
  /\ tasks' = [tasks EXCEPT ![t] =
       Settle(NextCall([tasks[t] EXCEPT !.out =
                 Append(tasks[t].out,
                        [to |-> CurCall(tasks[t]).groupId,
                         text |-> formatDatabaseStatus(tasks[t].result)])]),
              monitoredGroupsCache)]
  /\ lastDb' = NoDb
  /\ UNCHANGED <<client, users, groups, monitoredGroupsCache>>

\* client.sendMessage catches the transport's error: nothing is sent
SendMessageError(t) ==
  /\ At(t, "sendMessage", "send")
  /\ tasks' = [tasks EXCEPT ![t] =
       Settle(NextCall([tasks[t] EXCEPT !.faults = tasks[t].faults + 1]),
              monitoredGroupsCache)]
  /\ lastDb' = NoDb
  /\ UNCHANGED <<client, users, groups, monitoredGroupsCache>>

(***************************************************************************)
(* The process and its WhatsAppClient: the start of the application, the   *)
(* socket, the reconnect counter and the pending reconnect timer.          *)
(*   phase     how far Application.start has come                          *)
(*   socket    the state of the socket made by the last connect()          *)
(*   timer     a setTimeout(() => this.connect(), delay) is pending        *)
(*   authFiles the credential files are in the auth directory              *)
(*   exited    process.exit(1) has been called                             *)
(*   delay     the delay of the last reconnect scheduled, in ms            *)
(*   lastClose the status of the last connection close (history)           *)
(*   sinceOpen the reconnects scheduled since the last connection-open     *)
(*             event (history)                                             *)
(***************************************************************************)
MAX_RECONNECT_ATTEMPTS == 10

BootClient ==
  [phase |-> "boot", socket |-> "none", reconnectAttempts |-> 0, timer |-> FALSE,
   authFiles |-> TRUE, exited |-> FALSE, delay |-> 0, lastClose |-> "-",
   sinceOpen |-> 0]

Min(a, b) == IF a < b THEN a ELSE b

\* The process after its start, connected
StartedClient == [BootClient EXCEPT !.phase = "started", !.socket = "open"]

Alive == ~client.exited

\* The handler of a connection-open event has returned and the listener has
\* not yet run its line after the await
ResetPending(t) ==
  /\ tasks[t].h = "connection.open"
  /\ tasks[t].status \in {"done", "caught"}
  /\ tasks[t].pc # "end"

\* The listener's continuations run before the next event is delivered
NoContinuation == \A t \in TaskIds : ~ResetPending(t)

\* connection.update with connection 'open': the listener awaits the handler,
\* which starts the scan
ConnectionOpen(t) ==
  /\ Alive
  /\ client.socket = "connecting"
  /\ NoContinuation
  /\ ~Running(t)
  /\ tasks' = [tasks EXCEPT ![t] =
                 [Fetching("connection.open", NoEvent) EXCEPT !.pc = "fetchAll"]]
  /\ client' = [client EXCEPT !.socket = "open", !.sinceOpen = 0]
  /\ lastDb' = NoDb
  /\ UNCHANGED <<users, groups, monitoredGroupsCache>>

\* The listener after the handler of the open event has returned:
\* this.reconnectAttempts = 0
OpenReset(t) ==
  /\ Alive
  /\ ResetPending(t)
  /\ tasks' = [tasks EXCEPT ![t].pc = "end"]
  /\ client' = [client EXCEPT !.reconnectAttempts = 0]
  /\ lastDb' = NoDb
  /\ UNCHANGED <<users, groups, monitoredGroupsCache>>

\* The delay computed from the counter before its increment
ConnectionCloseMut ==
  /\ Alive
  /\ client.socket \in {"connecting", "open"}
  /\ NoContinuation
  /\ client' =
       IF client.reconnectAttempts < MAX_RECONNECT_ATTEMPTS
       THEN [client EXCEPT !.socket = "closed",
                           !.lastClose = "error",
                           !.reconnectAttempts = client.reconnectAttempts + 1,
                           !.timer = TRUE,
                           !.delay = Min(client.reconnectAttempts * 1000, 10000),
                           !.sinceOpen = client.sinceOpen + 1]
       ELSE [client EXCEPT !.socket = "closed", !.lastClose = "error",
                           !.exited = TRUE]
  /\ lastDb' = NoDb
  /\ UNCHANGED <<users, groups, monitoredGroupsCache, tasks>>

\* connection.update with connection 'close' and a status other than
\* loggedOut: a reconnect is scheduled, or the process exits
ConnectionClose ==
  /\ Alive
  /\ client.socket \in {"connecting", "open"}
  /\ NoContinuation
  /\ client' =
       IF client.reconnectAttempts < MAX_RECONNECT_ATTEMPTS
       THEN [client EXCEPT !.socket = "closed",
                           !.lastClose = "error",
                           !.reconnectAttempts = client.reconnectAttempts + 1,
                           !.timer = TRUE,
                           !.delay = Min((client.reconnectAttempts + 1) * 1000, 10000),
                           !.sinceOpen = client.sinceOpen + 1]
       ELSE [client EXCEPT !.socket = "closed", !.lastClose = "error",
                           !.exited = TRUE]
  /\ lastDb' = NoDb
  /\ UNCHANGED <<users, groups, monitoredGroupsCache, tasks>>

\* The logged-out close made to take the reconnect branch after clearing
ConnectionLoggedOutMut(cleared) ==
  /\ Alive
  /\ client.socket \in {"connecting", "open"}
  /\ NoContinuation
  /\ client' =
       IF client.reconnectAttempts < MAX_RECONNECT_ATTEMPTS
       THEN [client EXCEPT !.socket = "closed",
                           !.lastClose = "loggedOut",
                           !.authFiles = client.authFiles /\ ~cleared,
                           !.reconnectAttempts = client.reconnectAttempts + 1,
                           !.timer = TRUE]
       ELSE [client EXCEPT !.socket = "closed", !.lastClose = "loggedOut",
                           !.authFiles = client.authFiles /\ ~cleared,
                           !.exited = TRUE]
  /\ lastDb' = NoDb
  /\ UNCHANGED <<users, groups, monitoredGroupsCache, tasks>>

\* connection.update with connection 'close' and status loggedOut:
\* WhatsAppAuth.clearAuthState(), which logs an error of the file system and
\* goes on, then process.exit(1)
ConnectionLoggedOut(cleared) ==
  /\ Alive
  /\ client.socket \in {"connecting", "open"}
  /\ NoContinuation
  /\ client' = [client EXCEPT !.socket = "closed",
                              !.lastClose = "loggedOut",
                              !.authFiles = client.authFiles /\ ~cleared,
                              !.exited = TRUE]
  /\ lastDb' = NoDb
  /\ UNCHANGED <<users, groups, monitoredGroupsCache, tasks>>

\* The timer fires: connect() makes a new socket and registers the listeners
Reconnect ==
  /\ Alive
  /\ client.timer
  /\ client' = [client EXCEPT !.timer = FALSE, !.socket = "connecting"]
  /\ lastDb' = NoDb
  /\ UNCHANGED <<users, groups, monitoredGroupsCache, tasks>>

\* The timer fires and connect() fails before the socket is made: the error is
\* logged, connect() returns null
ReconnectError ==
  /\ Alive
  /\ client.timer
  /\ client' = [client EXCEPT !.timer = FALSE]
  /\ lastDb' = NoDb
  /\ UNCHANGED <<users, groups, monitoredGroupsCache, tasks>>

\* Application.start: DatabaseService.connect() has resolved and
\* loadMonitoredGroups is called, up to its await of Group.find
DatabaseConnect ==
  /\ Alive
  /\ client.phase = "boot"
  /\ tasks' = [tasks EXCEPT ![1] =
       Settle(NewTask("start", NoEvent, FALSE,
                      <<Call("loadMonitoredGroups", "-", NoName, <<>>)>>, "enter"),
              monitoredGroupsCache)]
  /\ client' = [client EXCEPT !.phase = "store"]
  /\ lastDb' = NoDb
  /\ UNCHANGED <<users, groups, monitoredGroupsCache>>

\* DatabaseService.connect() rejects: start's catch calls process.exit(1)
DatabaseConnectError ==
  /\ Alive
  /\ client.phase = "boot"
  /\ client' = [client EXCEPT !.exited = TRUE]
  /\ lastDb' = DbCmd("error", "-", <<>>)
  /\ UNCHANGED <<users, groups, monitoredGroupsCache, tasks>>

\* loadMonitoredGroups has thrown: start's catch calls process.exit(1)
StartCatch ==
  /\ Alive
  /\ client.phase = "store"
  /\ tasks[1].h = "start"
  /\ tasks[1].status = "threw"
  /\ client' = [client EXCEPT !.exited = TRUE]
  /\ lastDb' = NoDb
  /\ UNCHANGED <<users, groups, monitoredGroupsCache, tasks>>

\* The transport started without awaiting the load
ClientConnectMut(made) ==
  /\ Alive
  /\ client.phase = "store"
  /\ tasks[1].h = "start"
  /\ tasks[1].status \in {"run", "done"}
  /\ client' = [client EXCEPT !.phase = "started",
                              !.socket = IF made THEN "connecting" ELSE "none"]
  /\ lastDb' = NoDb
  /\ UNCHANGED <<users, groups, monitoredGroupsCache, tasks>>

\* Application.start after the load: whatsAppController.start, that is
\* client.connect(), which makes the socket and registers the listeners, or
\* logs its error and returns null
ClientConnect(made) ==
  /\ Alive
  /\ client.phase = "store"
  /\ tasks[1].h = "start"
  /\ tasks[1].status = "done"
  /\ client' = [client EXCEPT !.phase = "started",
                              !.socket = IF made THEN "connecting" ELSE "none"]
  /\ lastDb' = NoDb
  /\ UNCHANGED <<users, groups, monitoredGroupsCache, tasks>>

\* The listeners are registered on a socket that is not closed
Listening == Alive /\ client.socket \in {"connecting", "open"}

(***************************************************************************)
(* Callers of the GroupService API: a caller awaits its calls one after    *)
(* the other; an error ends it.                                            *)
(***************************************************************************)
StartScript(t, script) ==
  /\ ~Running(t)
  /\ tasks' = [tasks EXCEPT ![t] =
       Settle(NewTask("caller", NoEvent, FALSE, script, "enter"), monitoredGroupsCache)]
  /\ lastDb' = NoDb
  /\ UNCHANGED <<client, users, groups, monitoredGroupsCache>>

Init ==
  /\ users = {}
  /\ groups = {}
  /\ monitoredGroupsCache = {}
  /\ tasks = [t \in TaskIds |-> IdleTask]
  /\ lastDb = NoDb
  /\ client = StartedClient

G1 == GroupOrder[1]
G2 == GroupOrder[2]

Add(g, n) == Call("addGroupToMonitored", g, n, <<>>)
Remove(g) == Call("removeGroupFromMonitored", g, NoName, <<>>)
Load == Call("loadMonitoredGroups", "-", NoName, <<>>)
Sync(g, m) == Call("syncGroupMembers", g, NoName, m)
Added(g, m) == Call("handleMembersAdded", g, NoName, m)
Removed(g, m) == Call("handleMembersRemoved", g, NoName, m)
Status == Call("getDatabaseStatus", "-", NoName, <<>>)

\* The second group has the one member "111" in the specifications about
\* members of the first group.
SmallRosters == {<<>>, <<PhoneOrder[1]>>}

(***************************************************************************)
(* SpecSyncTwice: one caller at a time registers a group or reconciles a   *)
(* group twice in a row.                                                   *)
(***************************************************************************)
SyncTwiceScripts ==
  {<<Add(G1, NeolFriends)>>, <<Add(G2, RandomChat)>>}
    \cup {<<Sync(G2, m)>> : m \in SmallRosters}
    \cup {<<Sync(G1, m1), Sync(G1, m2)>> : m1 \in Rosters, m2 \in Rosters}

StartSyncTwice == \E script \in SyncTwiceScripts : StartScript(1, script)

NextSyncTwice ==
  \/ StartSyncTwice
  \/ AddUpsert(1)
  \/ AddCache(1)
  \/ SyncFind(1)
  \/ SyncUpsert(1)
  \/ SyncDeactivate(1)

SpecSyncTwice == Init /\ [][NextSyncTwice]_vars

\* The caller of task t has completed sync(g, M1) and then sync(g, M2) on a
\* group that was monitored at both calls.
SyncTwiceScript(tk) ==
  /\ Len(tk.script) = 2
  /\ tk.script[1].fn = "syncGroupMembers"
  /\ tk.script[2].fn = "syncGroupMembers"
  /\ tk.script[1].groupId = tk.script[2].groupId

SyncTwiceDone(tk) ==
  /\ SyncTwiceScript(tk)
  /\ tk.status = "done"
  /\ tk.skipped = {}

IsActive(U, p, g) == UserMatches(U, p, g) = {UserDoc(p, g, TRUE)}
IsInactive(U, p, g) == UserMatches(U, p, g) = {UserDoc(p, g, FALSE)}

SyncTwiceFinal ==
  \A t \in TaskIds :
    SyncTwiceDone(tasks[t]) =>
      LET g == tasks[t].script[1].groupId
          M1 == Range(tasks[t].script[1].members)
          M2 == Range(tasks[t].script[2].members)
      IN /\ \A p \in M2 : IsActive(users, p, g)
         /\ \A p \in M1 \ M2 : IsInactive(users, p, g)

\* The membership records a step of the two calls may not touch at all
Outside(U, g, M) == {d \in U : d.groupId # g \/ d.phoneNumber \notin M}

SyncTwiceStep(t) ==
  /\ SyncTwiceScript(tasks[t])
  /\ Running(t)
  /\ tasks'[t].script = tasks[t].script

\* C1 as stated: both calls done, M2 active, M1 \ M2 inactive, and no step of
\* the two calls creates or modifies a record of an identifier outside M1 \cup M2.
C1_Untouched ==
  /\ []SyncTwiceFinal
  /\ [][\A t \in TaskIds : SyncTwiceStep(t) =>
          LET g == tasks[t].script[1].groupId
              M == Range(tasks[t].script[1].members) \cup Range(tasks[t].script[2].members)
          IN /\ Outside(users', g, M) = Outside(users, g, M)
             /\ (lastDb'.kind = "write" /\ lastDb'.coll = "User") =>
                    (lastDb'.key[2] = g /\ lastDb'.key[1] \in M)]_vars

\* C1 amended: after sync(g, M1) then sync(g, M2), not interleaved, on a
\* monitored group, every member of M2 has an active record and every member of
\* M1 \ M2 an inactive one; no step of the two calls creates a record for an
\* identifier outside M1 \cup M2 or writes a record of another group, and a
\* record of g outside M1 \cup M2 is written only to flip it from active to
\* inactive.
C1_SyncTwice ==
  /\ []SyncTwiceFinal
  /\ [][\A t \in TaskIds : SyncTwiceStep(t) =>
          LET g == tasks[t].script[1].groupId
              M == Range(tasks[t].script[1].members) \cup Range(tasks[t].script[2].members)
          IN /\ \A d \in Outside(users', g, M) \ Outside(users, g, M) :
                  /\ d.groupId = g
                  /\ ~d.isActive
                  /\ UserDoc(d.phoneNumber, g, TRUE) \in users
             /\ \A d \in Outside(users, g, M) \ Outside(users', g, M) :
                  /\ d.groupId = g
                  /\ d.isActive
                  /\ UserDoc(d.phoneNumber, g, FALSE) \in users'
             /\ (lastDb'.kind = "write" /\ lastDb'.coll = "User") =>
                  /\ lastDb'.key[2] = g
                  /\ lastDb'.key[1] \notin M =>
                       /\ IsActive(users, lastDb'.key[1], g)
                       /\ IsInactive(users', lastDb'.key[1], g)]_vars

\* The spec's case: {111, 222} then {222, 333}, both calls completed.
C1_Witness ==
  /\ SyncTwiceDone(tasks[1])
  /\ tasks[1].script[1].members = <<"111", "222">>
  /\ tasks[1].script[2].members = <<"222", "333">>
  /\ IsInactive(users, "111", G1)
  /\ IsActive(users, "222", G1)
  /\ IsActive(users, "333", G1)

(***************************************************************************)
(* SpecRace: callers of the GroupService methods run concurrently on one   *)
(* group; their steps interleave at the awaits.                            *)
(***************************************************************************)
PairRosters == {RosterOf(S) : S \in SUBSET {PhoneOrder[1], PhoneOrder[2]}}

RaceScripts ==
  {<<Add(G1, NeolFriends)>>, <<Remove(G1)>>, <<Load>>}
    \cup {<<Sync(G1, m)>> : m \in PairRosters}
    \cup {<<Added(G1, m)>> : m \in PairRosters}
    \cup {<<Removed(G1, m)>> : m \in PairRosters}

StartRace == \E t \in TaskIds : \E script \in RaceScripts : StartScript(t, script)

NextRace ==
  \/ StartRace
  \/ \E t \in TaskIds : AddUpsert(t)
  \/ \E t \in TaskIds : AddCache(t)
  \/ \E t \in TaskIds : RemoveUpdate(t)
  \/ \E t \in TaskIds : RemoveCache(t)
  \/ \E t \in TaskIds : LoadFind(t)
  \/ \E t \in TaskIds : LoadAssign(t)
  \/ \E t \in TaskIds : SyncFind(t)
  \/ \E t \in TaskIds : SyncUpsert(t)
  \/ \E t \in TaskIds : SyncDeactivate(t)
  \/ \E t \in TaskIds : AddedUpsert(t)
  \/ \E t \in TaskIds : MemberRemove(t)

SpecRace == Init /\ [][NextRace]_vars

\* C2: at most one membership record per (phoneNumber, groupId) pair, in every
\* state, also while upserts of the same pair by interleaved callers overlap.
C2_UniquePair ==
  \A p \in Phones : \A g \in GroupIds : Cardinality(UserMatches(users, p, g)) <= 1

\* A syncGroupMembers and a handleMembersAdded are both between their upserts
\* of the same pair, whose record exists.
C2_Witness ==
  /\ At(1, "syncGroupMembers", "members")
  /\ At(2, "handleMembersAdded", "members")
  /\ CurCall(tasks[1]).members[tasks[1].i] = "222"
  /\ CurCall(tasks[2]).members[tasks[2].i] = "222"
  /\ UserMatches(users, "222", G1) # {}
  /\ lastDb = DbCmd("write", "User", <<"111", G1>>)

\* C3 as stated: every group id in the in-memory monitored set has a persisted
\* Group record with isMonitored = true, in every state and under any
\* interleaving of loadMonitoredGroups, addGroupToMonitored,
\* removeGroupFromMonitored and the member handlers.
C3_CacheSubset ==
  \A g \in monitoredGroupsCache :
    \E d \in GroupMatches(groups, g) : d.isMonitored

(***************************************************************************)
(* SpecRegistrar: one caller at a time registers a group (once, or twice   *)
(* in a row with the same arguments), unregisters it or reloads the cache. *)
(***************************************************************************)
RegistrarNames == GroupNames \cup {NoName}

RegistrarScripts ==
  {<<Add(g, n)>> : g \in GroupIds, n \in RegistrarNames}
    \cup {<<Add(g, n), Add(g, n)>> : g \in GroupIds, n \in RegistrarNames}
    \cup {<<Remove(g)>> : g \in GroupIds}
    \cup {<<Load>>}

StartRegistrar == \E script \in RegistrarScripts : StartScript(1, script)

NextRegistrar ==
  \/ StartRegistrar
  \/ AddUpsert(1)
  \/ AddCache(1)
  \/ RemoveUpdate(1)
  \/ RemoveCache(1)
  \/ LoadFind(1)
  \/ LoadAssign(1)

SpecRegistrar == Init /\ [][NextRegistrar]_vars

AddTwiceScript(tk) ==
  /\ Len(tk.script) = 2
  /\ tk.script[1].fn = "addGroupToMonitored"
  /\ tk.script[2] = tk.script[1]

\* C4: addGroupToMonitored is idempotent.  No step of a second call with the
\* same arguments changes a Group record (its monitored flag or its name) or
\* the in-memory set; when it is done the group is registered under the name.
C4_AddIdempotent ==
  /\ [](\A t \in TaskIds :
          (AddTwiceScript(tasks[t]) /\ tasks[t].status = "done") =>
             LET c == tasks[t].script[1] IN
               /\ c.groupId \in monitoredGroupsCache
               /\ \E d \in GroupMatches(groups, c.groupId) :
                    /\ GroupMatches(groups, c.groupId) = {d}
                    /\ d.isMonitored
                    /\ c.groupName # NoName => d.name = c.groupName)
  /\ [][\A t \in TaskIds :
          (AddTwiceScript(tasks[t]) /\ Running(t) /\ tasks[t].ci = 2) =>
             /\ groups' = groups
             /\ monitoredGroupsCache' = monitoredGroupsCache]_vars

\* The second call is done on a group that was unmonitored and named otherwise
\* before the first, beside another persisted group.
C4_Witness ==
  /\ AddTwiceScript(tasks[1])
  /\ tasks[1].status = "done"
  /\ tasks[1].script[1] = Add(G1, RandomChat)
  /\ groups = {GroupDoc(G1, TRUE, RandomChat), GroupDoc(G2, FALSE, NeolFriends)}
  /\ monitoredGroupsCache = {G1}

\* A caller's step that starts call c as the only call of task t
Starts(t, c) ==
  /\ ~Running(t)
  /\ tasks'[t] # tasks[t]
  /\ tasks'[t].script = <<c>>

\* C5: handleMembersAdded and handleMembersRemoved on a group that is not in
\* the in-memory monitored set return at once: no store command is issued, no
\* membership or Group record and no monitored-set entry changes.
C5_UnmonitoredNoOp ==
  [][\A t \in TaskIds : \A g \in GroupIds : \A m \in Rosters :
       \A fn \in {"handleMembersAdded", "handleMembersRemoved"} :
         (Starts(t, Call(fn, g, NoName, m)) /\ g \notin monitoredGroupsCache) =>
            /\ tasks'[t].status = "done"
            /\ tasks'[t].skipped = {1}
            /\ lastDb'.kind = "none"
            /\ users' = users
            /\ groups' = groups
            /\ monitoredGroupsCache' = monitoredGroupsCache]_vars

\* handleMembersRemoved(g, [111]) has returned on the unmonitored g, whose
\* record of 111 is still active.
C5_Witness ==
  /\ tasks[1].status = "done"
  /\ tasks[1].script = <<Removed(G1, <<"111">>)>>
  /\ tasks[1].skipped = {1}
  /\ G1 \notin monitoredGroupsCache
  /\ IsActive(users, "111", G1)

(***************************************************************************)
(* SpecScan: connection-open events, one at a time; each runs the full     *)
(* scan on what groupFetchAllParticipating returns.                        *)
(***************************************************************************)
\* The metadata the transport may hold of a group
MetadataOf(g) ==
  {Metadata(g, n, m) : n \in GroupNames,
                       m \in IF g = G1 THEN PairRosters ELSE SmallRosters}

\* The responses of groupFetchAllParticipating: the participating groups, in
\* GroupOrder, each with its metadata
Responses ==
  {<<>>} \cup {<<e>> : e \in MetadataOf(G1) \cup MetadataOf(G2)}
         \cup {<<e1, e2>> : e1 \in MetadataOf(G1), e2 \in MetadataOf(G2)}

NextScan ==
  \/ OnConnectionOpen(1)
  \/ \E response \in Responses : FetchAll(1, response)
  \/ FetchAllError(1)
  \/ AddUpsert(1)
  \/ AddCache(1)
  \/ SyncFind(1)
  \/ SyncUpsert(1)
  \/ SyncDeactivate(1)
  \/ StoreError(1)

SpecScan == Init /\ [][NextScan]_vars

ActivePhones(U, g) == {d.phoneNumber : d \in {x \in UsersOf(U, g) : x.isActive}}

\* Group g is registered under the name and reconciled with the roster
Reconciled(g, name, roster) ==
  /\ GroupMatches(groups, g) = {GroupDoc(g, TRUE, name)}
  /\ g \in monitoredGroupsCache
  /\ ActivePhones(users, g) = Range(roster)
  /\ \A p \in Range(roster) : IsActive(users, p, g)

\* The groups of a response whose name matches the keyword
Matching(response) ==
  {response[k].id : k \in {j \in 1..Len(response) : isTargetGroup(response[j].subject)}}

\* Nothing of group g changes in the step
GroupUntouched(g) ==
  /\ UsersOf(users', g) = UsersOf(users, g)
  /\ GroupMatches(groups', g) = GroupMatches(groups, g)
  /\ (g \in monitoredGroupsCache') = (g \in monitoredGroupsCache)

\* C6: a scan that ends without a store or transport error leaves every
\* participating group whose name matches the keyword registered under its name,
\* in the monitored set, with active records for exactly its roster; no step
\* of a scan touches a record or the set entry of any other group.
C6_FullScan ==
  /\ [](\A t \in TaskIds :
          (tasks[t].h = "connection.open" /\ tasks[t].status = "done"
             /\ tasks[t].faults = 0) =>
            \A k \in 1..Len(tasks[t].response) :
              LET e == tasks[t].response[k] IN
                isTargetGroup(e.subject) => Reconciled(e.id, e.subject, e.participants))
  /\ [][\A t \in TaskIds :
          (tasks[t].h = "connection.open" /\ Running(t)) =>
             \A g \in GroupIds \ Matching(tasks'[t].response) : GroupUntouched(g)]_vars

\* The spec's scenario: "Neol Friends" with [111, 222], beside a group that
\* does not match, on an empty store.
C6_Witness ==
  /\ tasks[1].h = "connection.open"
  /\ tasks[1].status = "done"
  /\ tasks[1].faults = 0
  /\ tasks[1].response = <<Metadata(G1, NeolFriends, <<"111", "222">>),
                           Metadata(G2, RandomChat, <<"111">>)>>
  /\ groups = {GroupDoc(G1, TRUE, NeolFriends)}
  /\ users = {UserDoc("111", G1, TRUE), UserDoc("222", G1, TRUE)}
  /\ monitoredGroupsCache = {G1}

(***************************************************************************)
(* SpecParticipants: group-participants.update events, one at a time.  The *)
(* first event of a group finds it unmonitored and may register it; the    *)
(* later ones take the incremental path.  A group is reconciled only when  *)
(* it is registered, with no record yet: the reconciliation has nothing to *)
(* deactivate.                                                             *)
(***************************************************************************)
ParticipantActions == {"add", "remove", "promote", "demote"}

ParticipantEvents ==
  {Event(G1, NoName, m, a, FALSE, "") :
     m \in PairRosters \ {<<>>}, a \in ParticipantActions}
  \cup {Event(G2, NoName, m, a, FALSE, "") :
     m \in SmallRosters \ {<<>>}, a \in ParticipantActions}

ParticipantMetadata ==
  {Metadata(G1, n, m) : n \in GroupNames, m \in Rosters} \cup MetadataOf(G2)

NextParticipants ==
  \/ \E ev \in ParticipantEvents : OnGroupParticipantsUpdate(1, ev)
  \/ \E metadata \in ParticipantMetadata : FetchMetadata(1, metadata)
  \/ FetchNull(1)
  \/ AddUpsert(1)
  \/ AddCache(1)
  \/ SyncFind(1)
  \/ SyncUpsert(1)
  \/ AddedUpsert(1)
  \/ MemberRemove(1)
  \/ StoreError(1)

SpecParticipants == Init /\ [][NextParticipants]_vars

\* The invocation in slot t is of an event that found its group monitored
\* (the path with no metadata fetch and no catch)
OnMonitored(t, action) ==
  /\ tasks[t].h = "group-participants.update"
  /\ tasks[t].ev.action = action
  /\ ~tasks[t].catches

\* The records of U other than those of (p, g) for p in P
Others(U, g, P) == {d \in U : d.groupId # g \/ d.phoneNumber \notin P}

\* C7: while the handler of a participant-remove event on a monitored group
\* runs, only records of (r, g) with r among the removed change, none is
\* created and none becomes active, and when it ends without an error every
\* existing record of a removed identifier is inactive; while the handler of
\* a participant-add event runs, only records of (a, g) with a among the
\* added change and none of them stops being active, and when it ends
\* without an error each of them has exactly one record, active.
C7_Incremental ==
  /\ [][\A t \in TaskIds :
          LET ev == tasks[t].ev
              P  == Range(ev.participants)
          IN /\ (OnMonitored(t, "remove") /\ Running(t)) =>
                  /\ Others(users', ev.id, P) = Others(users, ev.id, P)
                  /\ \A r \in P :
                       /\ (UserMatches(users', r, ev.id) = {})
                            = (UserMatches(users, r, ev.id) = {})
                       /\ IsActive(users', r, ev.id) => IsActive(users, r, ev.id)
             /\ (OnMonitored(t, "add") /\ Running(t)) =>
                  /\ Others(users', ev.id, P) = Others(users, ev.id, P)
                  /\ \A a \in P :
                       IsActive(users, a, ev.id) => IsActive(users', a, ev.id)]_vars
  /\ [](\A t \in TaskIds :
          LET ev == tasks[t].ev
              P  == Range(ev.participants)
          IN /\ (OnMonitored(t, "remove") /\ tasks[t].status = "done"
                   /\ tasks[t].faults = 0) =>
                  \A r \in P : \A d \in UserMatches(users, r, ev.id) : ~d.isActive
             /\ (OnMonitored(t, "add") /\ tasks[t].status = "done"
                   /\ tasks[t].faults = 0) =>
                  \A a \in P : IsActive(users, a, ev.id))

\* The spec's scenario: 111 and 222 are active in the monitored group, the
\* remove event for 111 has been handled: 111 is inactive, 222 still active.
C7_Witness ==
  /\ OnMonitored(1, "remove")
  /\ tasks[1].status = "done"
  /\ tasks[1].faults = 0
  /\ tasks[1].ev.id = G1
  /\ tasks[1].ev.participants = <<"111">>
  /\ lastDb = DbCmd("write", "User", <<"111", G1>>)
  /\ IsInactive(users, "111", G1)
  /\ IsActive(users, "222", G1)

(***************************************************************************)
(* SpecCommands: messages.upsert events of one text message, one at a      *)
(* time, from a group or from a one-to-one chat, self-authored or not.     *)
(***************************************************************************)
MessageTexts == {"Hi!", "sync", "check", "hi!"}

MessageEvents ==
  {Event(jid, NoName, <<>>, "-", fromMe, text) :
     jid \in GroupIds \cup {UserJid}, fromMe \in BOOLEAN, text \in MessageTexts}

NextCommands ==
  \/ \E ev \in MessageEvents : OnMessagesUpsert(1, ev)
  \/ \E metadata \in MetadataOf(G1) \cup MetadataOf(G2) : FetchMetadata(1, metadata)
  \/ FetchNull(1)
  \/ AddUpsert(1)
  \/ AddCache(1)
  \/ SyncFind(1)
  \/ SyncUpsert(1)
  \/ SyncDeactivate(1)
  \/ StatusGroups(1)
  \/ StatusCountTotal(1)
  \/ StatusCountActive(1)
  \/ SendMessage(1)
  \/ SendMessageError(1)
  \/ StoreError(1)

SpecCommands == Init /\ [][NextCommands]_vars

\* The command in slot t has ended with no store or transport error
Ended(t, h) ==
  /\ tasks[t].h = h
  /\ tasks[t].status = "done"
  /\ tasks[t].faults = 0

\* The number of detail entries of the report with the given classification
Classified(details, b) ==
  Cardinality({k \in 1..Len(details) : details[k].containsTargetKeyword = b})

\* C8: a self-authored "sync" in a group that ends without an error leaves
\* the group registered under its fetched name, in the monitored set, with
\* active records for exactly its fetched roster, whether or not the name has
\* the keyword; and a status report counts a monitored group under
\* forceMonitoredGroups, not under targetGroups, exactly when its stored name
\* lacks the keyword.
C8_ForceMonitor ==
  \A t \in TaskIds :
    /\ Ended(t, "sync") =>
         LET md == tasks[t].response[1] IN
           /\ tasks[t].ev.fromMe /\ tasks[t].ev.text = "sync"
           /\ md.id = tasks[t].ev.id
           /\ Reconciled(md.id, md.subject, md.participants)
    /\ (tasks[t].h = "check" /\ tasks[t].status = "done") =>
         LET r == tasks[t].result IN
           /\ Len(r.groupDetails) = Cardinality(MonitoredDocs(groups))
           /\ \A k \in 1..Len(r.groupDetails) :
                \E d \in MonitoredDocs(groups) :
                  /\ d.groupId = r.groupDetails[k].id
                  /\ r.groupDetails[k].containsTargetKeyword = isTargetGroup(d.name)
           /\ r.forceMonitoredGroups = Classified(r.groupDetails, FALSE)
           /\ r.targetGroups = Classified(r.groupDetails, TRUE)

\* The spec's scenario: "sync" was sent in "Random Chat"; the group is
\* registered and reconciled, and the report counts it as force-monitored.
C8_Witness ==
  /\ tasks[1].h = "check"
  /\ tasks[1].status = "done"
  /\ groups = {GroupDoc(G1, TRUE, RandomChat)}
  /\ monitoredGroupsCache = {G1}
  /\ users = {UserDoc("111", G1, TRUE), UserDoc("222", G1, TRUE)}
  /\ tasks[1].result.totalGroups = 1
  /\ tasks[1].result.forceMonitoredGroups = 1
  /\ tasks[1].result.targetGroups = 0

\* The fetch of the command in slot t, as the step leaves it, gave nothing or
\* a name without the keyword
NoMatchFetched(t) ==
  \/ tasks'[t].response = <<>>
  \/ ~isTargetGroup(tasks'[t].response[1].subject)

\* C9: while a self-authored "Hi!" in a group is handled, no record and no
\* set entry of another group changes, and if the fetch gives nothing or a name
\* without the keyword, nothing changes at all; if the fetched name has the
\* keyword and the handling ends without an error, the group is registered
\* under that name, in the monitored set, with active records for exactly its
\* fetched roster.
C9_HiOnlyOnMatch ==
  /\ [][\A t \in TaskIds :
          (tasks[t].h = "Hi!" /\ Running(t)) =>
             /\ \A g \in GroupIds \ {tasks[t].ev.id} : GroupUntouched(g)
             /\ NoMatchFetched(t) =>
                  UNCHANGED <<users, groups, monitoredGroupsCache>>]_vars
  /\ [](\A t \in TaskIds :
          (Ended(t, "Hi!") /\ tasks[t].response # <<>>) =>
             LET md == tasks[t].response[1] IN
               isTargetGroup(md.subject) =>
                 Reconciled(tasks[t].ev.id, md.subject, md.participants))

\* "Hi!" registered "Neol Friends"; a later "Hi!" in a group whose fetched
\* name is "Random Chat" has been handled and the group has no record.
C9_Witness ==
  /\ Ended(1, "Hi!")
  /\ tasks[1].ev.id = G2
  /\ tasks[1].response = <<Metadata(G2, RandomChat, <<"111">>)>>
  /\ groups = {GroupDoc(G1, TRUE, NeolFriends)}
  /\ monitoredGroupsCache = {G1}
  /\ users = {UserDoc("111", G1, TRUE), UserDoc("222", G1, TRUE)}

\* C10: no step of the handling of a self-authored "check" changes a Group
\* record, a membership record or the monitored set, and its store commands
\* are reads; when it ends without an error it has sent exactly one message,
\* to the chat the command came from, whose text is the formatted report of
\* the monitored groups.
C10_CheckPureRead ==
  /\ [][\A t \in TaskIds :
          (tasks[t].h = "check" /\ Running(t)) =>
             /\ UNCHANGED <<users, groups, monitoredGroupsCache>>
             /\ lastDb'.kind \in {"none", "read", "error"}]_vars
  /\ [](\A t \in TaskIds :
          Ended(t, "check") =>
             /\ tasks[t].ev.fromMe /\ tasks[t].ev.text = "check"
             /\ tasks[t].out = <<[to |-> tasks[t].ev.id,
                                  text |-> formatDatabaseStatus(tasks[t].result)]>>
             /\ tasks[t].result.totalGroups = Cardinality(MonitoredDocs(groups))
             /\ Len(tasks[t].result.groupDetails) = tasks[t].result.totalGroups)

\* "check" sent in a one-to-one chat with two groups monitored: the report
\* went back to that chat and the store is as the commands before left it.
C10_Witness ==
  /\ Ended(1, "check")
  /\ tasks[1].ev.id = UserJid
  /\ Len(tasks[1].out) = 1
  /\ tasks[1].out[1].to = UserJid
  /\ tasks[1].result.totalGroups = 2
  /\ groups = {GroupDoc(G1, TRUE, NeolFriends), GroupDoc(G2, TRUE, RandomChat)}
  /\ users = {UserDoc("111", G1, TRUE), UserDoc("222", G1, FALSE)}

(***************************************************************************)
(* SpecStatus: one caller at a time registers, unregisters or reconciles a *)
(* group, or asks for the status report; the report is computed on a store *)
(* that no one else is writing.                                            *)
(***************************************************************************)
StatusScripts ==
  {<<Add(g, n)>> : g \in GroupIds, n \in RegistrarNames}
    \cup {<<Remove(g)>> : g \in GroupIds}
    \cup {<<Sync(G1, m)>> : m \in Rosters}
    \cup {<<Sync(G2, m)>> : m \in SmallRosters}
    \cup {<<Status>>}

StartStatus == \E script \in StatusScripts : StartScript(1, script)

NextStatus ==
  \/ StartStatus
  \/ AddUpsert(1)
  \/ AddCache(1)
  \/ RemoveUpdate(1)
  \/ RemoveCache(1)
  \/ SyncFind(1)
  \/ SyncUpsert(1)
  \/ SyncDeactivate(1)
  \/ StatusGroups(1)
  \/ StatusCountTotal(1)
  \/ StatusCountActive(1)

SpecStatus == Init /\ [][NextStatus]_vars

\* The detail entry with the counts of the group of document d
DetailOf(d) ==
  LET total  == Cardinality(UsersOf(users, d.groupId))
      active == Cardinality(ActivePhones(users, d.groupId))
  IN [name |-> IF d.name = NoName THEN UnknownGroupName ELSE d.name,
      id |-> d.groupId,
      containsTargetKeyword |-> isTargetGroup(d.name),
      totalMembers |-> total,
      activeMembers |-> active,
      inactiveMembers |-> total - active]

StatusReturned(t) ==
  /\ tasks[t].script = <<Status>>
  /\ tasks[t].status = "done"

\* C11: the status computed on a quiescent store has totalGroups = the number
\* of Group records with the monitored flag = targetGroups +
\* forceMonitoredGroups, targetGroups = the number of them whose stored name
\* has the keyword (a record without a name has not), and one detail entry
\* per such group with totalMembers = the number of its membership records,
\* activeMembers = the number of its active ones and inactiveMembers = their
\* difference.
C11_StatusCounts ==
  \A t \in TaskIds :
    StatusReturned(t) =>
      LET r == tasks[t].result IN
        /\ r.totalGroups = Cardinality(MonitoredDocs(groups))
        /\ r.totalGroups = r.targetGroups + r.forceMonitoredGroups
        /\ r.targetGroups =
             Cardinality({d \in MonitoredDocs(groups) : isTargetGroup(d.name)})
        /\ Len(r.groupDetails) = r.totalGroups
        /\ \A d \in MonitoredDocs(groups) :
             \E k \in 1..Len(r.groupDetails) : r.groupDetails[k] = DetailOf(d)

\* The spec's scenario: "Neol Friends" with 2 active members and 1 inactive,
\* and a force-monitored group without members.
C11_Witness ==
  /\ StatusReturned(1)
  /\ groups = {GroupDoc(G1, TRUE, NeolFriends), GroupDoc(G2, TRUE, RandomChat)}
  /\ users = {UserDoc("111", G1, TRUE), UserDoc("222", G1, TRUE),
              UserDoc("333", G1, FALSE)}
  /\ tasks[1].result.totalGroups = 2
  /\ tasks[1].result.targetGroups = 1
  /\ tasks[1].result.forceMonitoredGroups = 1
  /\ tasks[1].result.groupDetails[1].inactiveMembers = 1
  /\ tasks[1].result.groupDetails[2].totalMembers = 0

(***************************************************************************)
(* SpecPredicate: isTargetGroup on every name of a bounded set.  The name  *)
(* is the subject of a pending groups.upsert event, whose handler applies  *)
(* the predicate before anything else.                                     *)
(***************************************************************************)
MaxNameLen == 5

\* The letters of the keyword, two of them in both cases, and a letter
\* outside it
NameChars == {"n", "N", "e", "o", "O", "l", "x"}

PredicateNames ==
  UNION {[1..n -> NameChars] : n \in 0..MaxNameLen} \cup GroupNames \cup {NoName}

InitPredicate ==
  /\ users = {}
  /\ groups = {}
  /\ monitoredGroupsCache = {}
  /\ lastDb = NoDb
  /\ client = StartedClient
  /\ \E name \in PredicateNames :
       tasks = [t \in TaskIds |->
                 IF t = 1
                 THEN [IdleTask EXCEPT !.ev = Event(G1, name, <<>>, "-", FALSE, "")]
                 ELSE IdleTask]

\* The pending event is delivered
UpsertPending ==
  /\ tasks[1].status = "idle"
  /\ OnGroupsUpsert(1, tasks[1].ev)

NextPredicate ==
  \/ UpsertPending
  \/ AddUpsert(1)
  \/ AddCache(1)

SpecPredicate == InitPredicate /\ [][NextPredicate]_vars

\* The letter in the other case
UpperChar(c) ==
  IF \E k \in 1..Len(Lower) : Lower[k] = c
  THEN Upper[CHOOSE k \in 1..Len(Lower) : Lower[k] = c]
  ELSE c

\* The name has the keyword somewhere, each letter in either case
HasKeywordAnyCase(name) ==
  /\ name # NoName
  /\ \E off \in 0..Len(name) :
       /\ off + Len(targetKeyword) <= Len(name)
       /\ \A k \in 1..Len(targetKeyword) :
            name[off + k] \in {targetKeyword[k], UpperChar(targetKeyword[k])}

\* C12: isTargetGroup(name) is true exactly when the name has the keyword as
\* a substring with each letter in either case, and false for the empty and
\* the absent name; the handler that evaluates it registers the group exactly
\* in that case, and the evaluation itself changes no record and no set entry.
C12_KeywordPredicate ==
  /\ [](\A t \in TaskIds :
          LET name == tasks[t].ev.subject IN
            /\ isTargetGroup(name) = HasKeywordAnyCase(name)
            /\ ~isTargetGroup(NoName) /\ ~isTargetGroup(<<>>)
            /\ tasks[t].h = "groups.upsert" =>
                 (tasks[t].script # <<>>) = HasKeywordAnyCase(name))
  /\ [][tasks[1].status = "idle" =>
          UNCHANGED <<users, groups, monitoredGroupsCache>>]_vars

\* A name with the keyword in mixed case behind another letter passed the
\* predicate: its group has been registered.
C12_Witness ==
  /\ tasks[1].h = "groups.upsert"
  /\ tasks[1].ev.subject = <<"x", "N", "e", "O", "l">>
  /\ tasks[1].status = "done"
  /\ groups = {GroupDoc(G1, TRUE, <<"x", "N", "e", "O", "l">>)}

(***************************************************************************)
(* SpecEvents: the inbound events of the five kinds, one handler at a      *)
(* time, with the errors of the store and of the transport.                *)
(***************************************************************************)
GroupsUpdateEvents ==
  {Event(g, n, <<>>, "-", FALSE, "") : g \in GroupIds, n \in RegistrarNames}

GroupsUpsertEvents ==
  {Event(md.id, md.subject, md.participants, "-", FALSE, "") :
     md \in MetadataOf(G1) \cup MetadataOf(G2)}

Deliver(t) ==
  \/ OnConnectionOpen(t)
  \/ \E ev \in ParticipantEvents : OnGroupParticipantsUpdate(t, ev)
  \/ \E ev \in GroupsUpdateEvents : OnGroupsUpdate(t, ev)
  \/ \E ev \in GroupsUpsertEvents : OnGroupsUpsert(t, ev)
  \/ \E ev \in MessageEvents : OnMessagesUpsert(t, ev)

Transport(t) ==
  \/ \E response \in Responses : FetchAll(t, response)
  \/ FetchAllError(t)
  \/ \E metadata \in MetadataOf(G1) \cup MetadataOf(G2) : FetchMetadata(t, metadata)
  \/ FetchNull(t)
  \/ SendMessage(t)
  \/ SendMessageError(t)

Store(t) ==
  \/ AddUpsert(t)
  \/ AddCache(t)
  \/ SyncFind(t)
  \/ SyncUpsert(t)
  \/ SyncDeactivate(t)
  \/ AddedUpsert(t)
  \/ MemberRemove(t)
  \/ StatusGroups(t)
  \/ StatusCountTotal(t)
  \/ StatusCountActive(t)
  \/ StoreError(t)

NextEvents == Deliver(1) \/ Transport(1) \/ Store(1)

SpecEvents == Init /\ [][NextEvents]_vars

PersistedMonitored(G, g) == \E d \in MonitoredDocs(G) : d.groupId = g

\* C13: under inbound events a group in the monitored set has its persisted
\* monitored flag true, and after every step it is still in the set with the
\* flag true.
C13_Sticky ==
  /\ [](\A g \in monitoredGroupsCache : PersistedMonitored(groups, g))
  /\ [][\A g \in monitoredGroupsCache :
          g \in monitoredGroupsCache' /\ PersistedMonitored(groups', g)]_vars

\* A monitored group has been renamed to a name without the keyword and is
\* still monitored.
C13_Witness ==
  /\ tasks[1].h = "groups.update"
  /\ tasks[1].status = "done"
  /\ tasks[1].ev.id = G1
  /\ tasks[1].ev.subject = RandomChat
  /\ lastDb = NoDb
  /\ groups = {GroupDoc(G1, TRUE, RandomChat)}
  /\ monitoredGroupsCache = {G1}
  /\ users = {UserDoc("111", G1, TRUE)}

(***************************************************************************)
(* SpecAll: the inbound events and, between them, calls of the service     *)
(* methods that no handler calls: removeGroupFromMonitored and             *)
(* loadMonitoredGroups.                                                    *)
(***************************************************************************)
AllScripts == {<<Remove(g)>> : g \in GroupIds} \cup {<<Load>>}

StartAll == \E script \in AllScripts : StartScript(1, script)

\* The events are those of the first group, the self-authored commands in it
\* or in the one-to-one chat, and scans that find at most one group.
AllMessageEvents ==
  {ev \in MessageEvents : ev.fromMe /\ ev.text # "hi!" /\ ev.id # G2}

AllResponses == {response \in Responses : Len(response) <= 1}

NextAll ==
  \/ OnConnectionOpen(1)
  \/ \E ev \in {e \in ParticipantEvents : e.id = G1} : OnGroupParticipantsUpdate(1, ev)
  \/ \E ev \in {e \in GroupsUpdateEvents : e.id = G1} : OnGroupsUpdate(1, ev)
  \/ \E ev \in {e \in GroupsUpsertEvents : e.id = G1} : OnGroupsUpsert(1, ev)
  \/ \E ev \in AllMessageEvents : OnMessagesUpsert(1, ev)
  \/ \E response \in AllResponses : FetchAll(1, response)
  \/ FetchAllError(1)
  \/ \E metadata \in MetadataOf(G1) : FetchMetadata(1, metadata)
  \/ FetchNull(1)
  \/ SendMessage(1)
  \/ SendMessageError(1)
  \/ Store(1)
  \/ StartAll
  \/ RemoveUpdate(1)
  \/ RemoveCache(1)
  \/ LoadFind(1)
  \/ LoadAssign(1)

SpecAll == Init /\ [][NextAll]_vars

\* C14: no step removes a membership record or a Group record: the record of
\* every (phone, group) pair and of every group id that exists before a step
\* exists after it.
C14_NoHardDelete ==
  [][/\ \A d \in users : UserMatches(users', d.phoneNumber, d.groupId) # {}
     /\ \A d \in groups : GroupMatches(groups', d.groupId) # {}]_vars

\* A group was registered with two members, one left, and the group was
\* unregistered: its record and both membership records are still there.
C14_Witness ==
  /\ tasks[1].script = <<Remove(G1)>>
  /\ tasks[1].status = "done"
  /\ groups = {GroupDoc(G1, FALSE, NeolFriends)}
  /\ users = {UserDoc("111", G1, FALSE), UserDoc("222", G1, TRUE)}
  /\ monitoredGroupsCache = {}

(***************************************************************************)
(* SpecConnection: the socket closes, reconnects and opens again; the open *)
(* handler scans while further connection events arrive.                   *)
(***************************************************************************)
ConnectionResponses == {<<>>, <<Metadata(G1, NeolFriends, <<"111">>)>>}

NextConnection ==
  \/ ConnectionClose
  \/ \E cleared \in BOOLEAN : ConnectionLoggedOut(cleared)
  \/ Reconnect
  \/ ReconnectError
  \/ \E t \in TaskIds : ConnectionOpen(t)
  \/ \E t \in TaskIds : OpenReset(t)
  \/ \E t \in TaskIds, response \in ConnectionResponses : Alive /\ FetchAll(t, response)
  \/ \E t \in TaskIds : Alive /\ FetchAllError(t)
  \/ \E t \in TaskIds : Alive /\ AddUpsert(t)
  \/ \E t \in TaskIds : Alive /\ AddCache(t)
  \/ \E t \in TaskIds : Alive /\ SyncFind(t)
  \/ \E t \in TaskIds : Alive /\ SyncUpsert(t)
  \/ \E t \in TaskIds : Alive /\ StoreError(t)

SpecConnection == Init /\ [][NextConnection]_vars

\* The step is the handling of a connection close with a status other than
\* loggedOut
ClosesOnError ==
  /\ client.socket # "closed"
  /\ client'.socket = "closed"
  /\ client'.lastClose = "error"

\* C15: a non-logout close schedules one reconnect or exits the process; at
\* most MAX_RECONNECT_ATTEMPTS reconnects are scheduled since the last
\* connection-open event, and a non-logout close that finds that many
\* scheduled exits.
C15_BoundedReconnects ==
  /\ [][ClosesOnError =>
          \/ /\ ~client'.exited
             /\ ~client.timer /\ client'.timer
             /\ client'.sinceOpen = client.sinceOpen + 1
          \/ /\ client'.exited
             /\ client'.timer = client.timer
             /\ client'.sinceOpen = client.sinceOpen]_vars
  /\ [](client.sinceOpen <= MAX_RECONNECT_ATTEMPTS)
  /\ [][(ClosesOnError /\ client.sinceOpen >= MAX_RECONNECT_ATTEMPTS)
          => client'.exited]_vars

\* The step is the handling of a connection close with status loggedOut
ClosesLoggedOut ==
  /\ client.socket # "closed"
  /\ client'.socket = "closed"
  /\ client'.lastClose = "loggedOut"

StartupStores ==
  {[groups |-> {}, users |-> {}],
   [groups |-> {GroupDoc(G1, TRUE, NeolFriends)},
    users |-> {UserDoc("111", G1, TRUE), UserDoc("222", G1, TRUE)}],
   [groups |-> {GroupDoc(G1, FALSE, NeolFriends), GroupDoc(G2, TRUE, RandomChat)},
    users |-> {UserDoc("111", G1, TRUE), UserDoc("222", G1, FALSE)}]}

InitStartup ==
  /\ \E store \in StartupStores : groups = store.groups /\ users = store.users
  /\ monitoredGroupsCache = {}
  /\ tasks = [t \in TaskIds |-> IdleTask]
  /\ lastDb = NoDb
  /\ client = BootClient

NextStartup ==
  \/ DatabaseConnect
  \/ DatabaseConnectError
  \/ StartCatch
  \/ \E made \in BOOLEAN : ClientConnect(made)
  \/ ConnectionOpen(2)
  \/ OpenReset(2)
  \/ \E ev \in ParticipantEvents : Listening /\ OnGroupParticipantsUpdate(2, ev)
  \/ \E t \in TaskIds : Alive /\ LoadFind(t)
  \/ \E t \in TaskIds : Alive /\ LoadAssign(t)
  \/ \E t \in TaskIds : Alive /\ StoreError(t)
  \/ \E response \in ConnectionResponses : Alive /\ FetchAll(2, response)
  \/ Alive /\ FetchAllError(2)
  \/ \E metadata \in MetadataOf(G1) \cup MetadataOf(G2) : Alive /\ FetchMetadata(2, metadata)
  \/ Alive /\ FetchNull(2)
  \/ Alive /\ AddUpsert(2)
  \/ Alive /\ AddCache(2)
  \/ Alive /\ SyncFind(2)
  \/ Alive /\ SyncUpsert(2)
  \/ Alive /\ SyncDeactivate(2)
  \/ Alive /\ AddedUpsert(2)
  \/ Alive /\ MemberRemove(2)

SpecStartup == InitStartup /\ [][NextStartup]_vars

MonitoredIds(G) == {d.groupId : d \in MonitoredDocs(G)}

\* C17: the transport is started only after loadMonitoredGroups has
\* returned, with the monitored set equal to the persisted monitored groups;
\* a handler has run only if the transport was started; when the load has
\* thrown the next step exits the process; a process that exited during the
\* start never made a socket and never ran a handler.
C17_StartupOrder ==
  /\ [](client.socket # "none" =>
          /\ client.phase = "started"
          /\ tasks[1].h = "start" /\ tasks[1].status = "done")
  /\ [](tasks[2].h # "-" => client.socket # "none")
  /\ [][(client.socket = "none" /\ client'.socket # "none") =>
          monitoredGroupsCache = MonitoredIds(groups)]_vars
  /\ [][(tasks[1].status = "threw" /\ Alive) => client'.exited]_vars
  /\ []((client.exited /\ client.phase # "started") =>
          /\ client.socket = "none"
          /\ tasks[2].h = "-")

\* The store had "Neol Friends" monitored; after the start a participant
\* removal in it took the path of a monitored group, with no metadata fetch.
C17_Witness ==
  /\ client.phase = "started"
  /\ tasks[1].h = "start" /\ tasks[1].status = "done"
  /\ tasks[2].h = "group-participants.update"
  /\ ~tasks[2].catches
  /\ tasks[2].status = "done"
  /\ tasks[2].ev.id = G1
  /\ tasks[2].ev.action = "remove"
  /\ groups = {GroupDoc(G1, TRUE, NeolFriends)}
  /\ monitoredGroupsCache = {G1}
  /\ users = {UserDoc("111", G1, FALSE), UserDoc("222", G1, TRUE)}

\* C18: an error of the store or of the transport raised while an event is
\* handled is caught inside the handler: no handler invocation ends by
\* throwing to the listener that called it.
C18_ErrorsCaught ==
  \A t \in TaskIds : tasks[t].status # "threw"

(***************************************************************************)
(* SpecGating: the text messages of SpecCommands and bodies that differ    *)
(* from a command by the case of a letter or by a trailing blank.          *)
(***************************************************************************)
GatingTexts == MessageTexts \cup {"Sync", "check ", ""}

GatingEvents ==
  {Event(jid, NoName, <<>>, "-", fromMe, text) :
     jid \in GroupIds \cup {UserJid}, fromMe \in BOOLEAN, text \in GatingTexts}

NextGating ==
  \/ \E ev \in GatingEvents : OnMessagesUpsert(1, ev)
  \/ \E metadata \in MetadataOf(G1) \cup MetadataOf(G2) : FetchMetadata(1, metadata)
  \/ FetchNull(1)
  \/ AddUpsert(1)
  \/ AddCache(1)
  \/ SyncFind(1)
  \/ SyncUpsert(1)
  \/ SyncDeactivate(1)
  \/ StatusGroups(1)
  \/ StatusCountTotal(1)
  \/ StatusCountActive(1)
  \/ SendMessage(1)
  \/ SendMessageError(1)
  \/ StoreError(1)

SpecGating == Init /\ [][NextGating]_vars

\* The invocation in slot t is of a message that no command took
Ignored(tk) == tk.h = "messages.upsert"

\* C19: "Hi!" and "sync" are handled only for a self-authored message in a
\* group whose body is exactly the command, "check" only for a self-authored
\* message with exactly that body; every other message is ignored: its
\* handler has returned at once, without a store command or a reply, and the
\* step that delivers it changes no record and no set entry.
C19_CommandsGated ==
  /\ [](\A t \in TaskIds :
          LET tk == tasks[t] IN
            /\ tk.h \in {"Hi!", "sync"} =>
                 tk.ev.fromMe /\ tk.ev.text = tk.h /\ isJidGroup(tk.ev.id)
            /\ tk.h = "check" => tk.ev.fromMe /\ tk.ev.text = "check"
            /\ (tk.h # "-" /\ (~tk.ev.fromMe \/ tk.ev.text \notin {"Hi!", "sync", "check"}))
                 => Ignored(tk)
            /\ Ignored(tk) =>
                 tk.status = "done" /\ tk.script = <<>> /\ tk.out = <<>> /\ tk.faults = 0)
  /\ [][\A t \in TaskIds :
          (Ignored(tasks'[t]) /\ tasks'[t] # tasks[t]) =>
             /\ UNCHANGED <<users, groups, monitoredGroupsCache>>
             /\ lastDb' = NoDb]_vars

\* "sync" registered the first group; a self-authored "Sync" in the second
\* group was ignored.
C19_Witness ==
  /\ Ignored(tasks[1])
  /\ tasks[1].ev.fromMe
  /\ tasks[1].ev.text = "Sync"
  /\ tasks[1].ev.id = G2
  /\ groups = {GroupDoc(G1, TRUE, RandomChat)}
  /\ monitoredGroupsCache = {G1}
  /\ users = {UserDoc("111", G1, TRUE)}

(***************************************************************************)
(* SpecSyncRace: two callers run syncGroupMembers on the first group, each *)
(* with a roster of its own; their store commands interleave.              *)
(***************************************************************************)
SyncRaceScripts ==
  {<<Add(G1, NeolFriends)>>} \cup {<<Sync(G1, m)>> : m \in PairRosters}

StartSyncRace ==
  \E t \in TaskIds : \E script \in SyncRaceScripts : StartScript(t, script)

NextSyncRace ==
  \/ StartSyncRace
  \/ \E t \in TaskIds : AddUpsert(t)
  \/ \E t \in TaskIds : AddCache(t)
  \/ \E t \in TaskIds : SyncFind(t)
  \/ \E t \in TaskIds : SyncUpsert(t)
  \/ \E t \in TaskIds : SyncDeactivate(t)

SpecSyncRace == Init /\ [][NextSyncRace]_vars

\* The call in slot t was a syncGroupMembers of the first group that passed
\* the monitored guard and ran to its end.
SyncCompleted(t) ==
  /\ tasks[t].status = "done"
  /\ Len(tasks[t].script) = 1
  /\ tasks[t].script[1].fn = "syncGroupMembers"
  /\ tasks[t].script[1].groupId = G1
  /\ tasks[t].skipped = {}

SyncRoster(t) == Range(tasks[t].script[1].members)

\* Slot t is inside a syncGroupMembers of the first group, past its guard
InSync(t) ==
  /\ Running(t)
  /\ CurCall(tasks[t]).fn = "syncGroupMembers"
  /\ CurCall(tasks[t]).groupId = G1

\* C20: two syncGroupMembers calls for one monitored group are not serialized:
\* while one is between its store commands, the other's next store command
\* is not held back; and when both have completed, the group's active records
\* are bounded by the two rosters only (every phone of both is active, every
\* active phone is of one of them), not fixed to the roster of either call.
C20_Unserialized ==
  /\ [](\A t \in TaskIds : \A o \in TaskIds \ {t} :
          (InSync(t) /\ InSync(o)) =>
             ENABLED (SyncFind(o) \/ SyncUpsert(o) \/ SyncDeactivate(o)))
  /\ []((SyncCompleted(1) /\ SyncCompleted(2)) =>
          /\ (SyncRoster(1) \cap SyncRoster(2)) \subseteq ActivePhones(users, G1)
          /\ ActivePhones(users, G1) \subseteq (SyncRoster(1) \cup SyncRoster(2)))

\* Both calls have completed, after reading the records of the group before
\* either wrote; the active set is the union of the rosters, equal to neither.
C20_Witness ==
  /\ SyncCompleted(1)
  /\ SyncCompleted(2)
  /\ tasks[1].script[1].members = <<"111">>
  /\ tasks[2].script[1].members = <<"222">>
  /\ tasks[1].existingMembers = <<>>
  /\ ActivePhones(users, G1) = {"111", "222"}
  /\ ActivePhones(users, G1) # SyncRoster(1)
  /\ ActivePhones(users, G1) # SyncRoster(2)

(***************************************************************************)
(* SpecRegistryRace: two callers register and unregister the first group,  *)
(* reload the cache and reconcile the group; their steps interleave at the *)
(* awaits, so that the cache and the persisted flags may differ.           *)
(***************************************************************************)
RegistryRaceScripts ==
  {<<Add(G1, NeolFriends)>>, <<Remove(G1)>>, <<Load>>}
    \cup {<<Sync(G1, m)>> : m \in PairRosters}

StartRegistryRace ==
  \E t \in TaskIds : \E script \in RegistryRaceScripts : StartScript(t, script)

NextRegistryRace ==
  \/ StartRegistryRace
  \/ \E t \in TaskIds : AddUpsert(t)
  \/ \E t \in TaskIds : AddCache(t)
  \/ \E t \in TaskIds : RemoveUpdate(t)
  \/ \E t \in TaskIds : RemoveCache(t)
  \/ \E t \in TaskIds : LoadFind(t)
  \/ \E t \in TaskIds : LoadAssign(t)
  \/ \E t \in TaskIds : SyncFind(t)
  \/ \E t \in TaskIds : SyncUpsert(t)
  \/ \E t \in TaskIds : SyncDeactivate(t)
  \/ \E t \in TaskIds : StoreError(t)

SpecRegistryRace == Init /\ [][NextRegistryRace]_vars

\* C21: syncGroupMembers on a group that is not in the in-memory monitored
\* set returns at once, whatever the persisted monitored flag of the group:
\* no store command is issued (no read, no write), and no membership record,
\* Group record or monitored-set entry changes.
C21_SyncUnmonitoredNoOp ==
  [][\A t \in TaskIds : \A m \in PairRosters :
       (Starts(t, Sync(G1, m)) /\ G1 \notin monitoredGroupsCache) =>
          /\ tasks'[t].status = "done"
          /\ tasks'[t].skipped = {1}
          /\ tasks'[t].existingMembers = <<>>
          /\ lastDb'.kind = "none"
          /\ users' = users
          /\ groups' = groups
          /\ monitoredGroupsCache' = monitoredGroupsCache]_vars

\* syncGroupMembers(g, [222]) has returned on g, whose persisted flag is true
\* (an addGroupToMonitored is between its upsert and its cache entry) and
\* which is not in the monitored set: the record of 111 is still active and
\* 222 has no record.
C21_Witness ==
  /\ tasks[1].status = "done"
  /\ tasks[1].script = <<Sync(G1, <<"222">>)>>
  /\ tasks[1].skipped = {1}
  /\ G1 \notin monitoredGroupsCache
  /\ PersistedMonitored(groups, G1)
  /\ At(2, "addGroupToMonitored", "cache")
  /\ IsActive(users, "111", G1)
  /\ UserMatches(users, "222", G1) = {}

\* The ids of the persisted groups with the monitored flag true
PersistedMonitoredIds(G) == {d.groupId : d \in MonitoredDocs(G)}

\* C28: loadMonitoredGroups replaces the in-memory monitored set: its read
\* takes the ids of the persisted groups whose monitored flag is true and
\* leaves the set alone, its completion makes the set exactly the ids read
\* (entries that were in the set and were not read are gone), and a store
\* error of the read reaches the caller with the set as it was.
C28_LoadReplaces ==
  /\ [][\A t \in TaskIds :
          (At(t, "loadMonitoredGroups", "find") /\ tasks'[t] # tasks[t]) =>
             /\ monitoredGroupsCache' = monitoredGroupsCache
             /\ \/ /\ tasks'[t].status = "threw"
                   /\ lastDb'.kind = "error"
                \/ /\ tasks'[t].status = "run"
                   /\ tasks'[t].pc = "assign"
                   /\ Range(tasks'[t].found) = PersistedMonitoredIds(groups)]_vars
  /\ [][\A t \in TaskIds :
          (At(t, "loadMonitoredGroups", "assign") /\ tasks'[t] # tasks[t]) =>
             /\ tasks'[t].status = "done"
             /\ monitoredGroupsCache' = Range(tasks[t].found)]_vars
  /\ [](\A t \in TaskIds :
          (tasks[t].script = <<Load>> /\ tasks[t].status = "threw") =>
             tasks[t].pc = "find")

\* loadMonitoredGroups read no monitored group; before it completed an
\* addGroupToMonitored of the other caller persisted the first group and put
\* it into the set; the completion left the set empty.
C28_Witness ==
  /\ tasks[2].status = "done"
  /\ tasks[2].script = <<Load>>
  /\ tasks[2].found = <<>>
  /\ tasks[1].status = "done"
  /\ tasks[1].script = <<Add(G1, NeolFriends)>>
  /\ groups = {GroupDoc(G1, TRUE, NeolFriends)}
  /\ monitoredGroupsCache = {}

(***************************************************************************)
(* The second loop of syncGroupMembers, under SpecSyncTwice                *)
(***************************************************************************)
\* Slot t is inside a syncGroupMembers call, at one of its store commands
SyncStep(t) ==
  /\ Running(t)
  /\ tasks[t].ci \in 1..Len(tasks[t].script)
  /\ CurCall(tasks[t]).fn = "syncGroupMembers"
  /\ tasks'[t] # tasks[t]

\* The syncGroupMembers calls of slot t that have returned, not skipped
SyncReturned(t) ==
  {k \in 1..Len(tasks[t].script) :
     /\ tasks[t].script[k].fn = "syncGroupMembers"
     /\ k \notin tasks[t].skipped
     /\ \/ tasks[t].status = "done"
        \/ tasks[t].status = "run" /\ tasks[t].ci = k + 1 /\ tasks[t].pc = "find"}

\* C22: in syncGroupMembers(g, M), not interleaved with another caller, a
\* record of g that is inactive and whose identifier is not in M is not
\* written by any step of the call and stays as it is; a write of a record
\* whose identifier is not in M flips an active record to inactive; and when
\* the call returns every record of g with an identifier not in M is inactive.
C22_InactiveUntouched ==
  /\ [][\A t \in TaskIds : SyncStep(t) =>
          LET g == CurCall(tasks[t]).groupId
              M == Range(CurCall(tasks[t]).members)
          IN \A p \in Phones \ M :
               /\ IsInactive(users, p, g) =>
                    /\ IsInactive(users', p, g)
                    /\ lastDb' # DbCmd("write", "User", <<p, g>>)
               /\ lastDb' = DbCmd("write", "User", <<p, g>>) =>
                    /\ IsActive(users, p, g)
                    /\ IsInactive(users', p, g)]_vars
  /\ [](\A t \in TaskIds : \A k \in SyncReturned(t) :
          LET g == tasks[t].script[k].groupId
              M == Range(tasks[t].script[k].members)
          IN (k = Len(tasks[t].script) \/ tasks[t].status = "run") =>
               \A d \in UsersOf(users, g) : d.phoneNumber \notin M => ~d.isActive)

\* syncGroupMembers(g, [333]) read 111 inactive and 222, 333 active; its
\* second loop has passed 111 without a command (the last one is the upsert
\* of 333) and is at the write that flips 222.
C22_Witness ==
  /\ SyncTwiceScript(tasks[1])
  /\ At(1, "syncGroupMembers", "inactive")
  /\ tasks[1].ci = 2
  /\ tasks[1].script[2].members = <<"333">>
  /\ tasks[1].existingMembers =
       <<UserDoc("111", G1, FALSE), UserDoc("222", G1, TRUE), UserDoc("333", G1, TRUE)>>
  /\ tasks[1].i = 2
  /\ lastDb = DbCmd("write", "User", <<"333", G1>>)
  /\ IsInactive(users, "111", G1)

(***************************************************************************)
(* SpecCalls: one caller at a time runs a short sequence of GroupService   *)
(* calls on the first group: reconciliations followed by a reconciliation, *)
(* an addition or a removal, and an unregistration followed by a call on   *)
(* the members.                                                            *)
(***************************************************************************)
MemberCalls(g) ==
  {Sync(g, m) : m \in PairRosters} \cup {Added(g, m) : m \in PairRosters}
    \cup {Removed(g, m) : m \in PairRosters}

CallsScripts ==
  {<<Add(G1, NeolFriends)>>, <<Remove(G1)>>, <<Remove(G2)>>}
    \cup {<<Sync(G1, m1), Sync(G1, m2), Sync(G1, m3)>> :
            m1 \in PairRosters, m2 \in PairRosters, m3 \in PairRosters}
    \cup {<<Sync(G1, m1), Sync(G1, m2), Added(G1, m3)>> :
            m1 \in PairRosters, m2 \in PairRosters, m3 \in PairRosters}
    \cup {<<Sync(G1, m1), Removed(G1, m2)>> : m1 \in PairRosters, m2 \in PairRosters}
    \cup {<<Remove(G1), c>> : c \in MemberCalls(G1)}

StartCalls == \E script \in CallsScripts : StartScript(1, script)

NextCalls ==
  \/ StartCalls
  \/ AddUpsert(1)
  \/ AddCache(1)
  \/ RemoveUpdate(1)
  \/ RemoveCache(1)
  \/ SyncFind(1)
  \/ SyncUpsert(1)
  \/ SyncDeactivate(1)
  \/ AddedUpsert(1)
  \/ MemberRemove(1)
  \/ StoreError(1)

SpecCalls == Init /\ [][NextCalls]_vars

\* Slot t runs reconcile(M1), reconcile(M2) and then a reconcile(M3) or an
\* addition of M3, none of them skipped by the guard
Lifecycle(tk) ==
  /\ Len(tk.script) = 3
  /\ tk.script[1].fn = "syncGroupMembers"
  /\ tk.script[2].fn = "syncGroupMembers"
  /\ tk.script[3].fn \in {"syncGroupMembers", "handleMembersAdded"}
  /\ tk.skipped = {}

\* The call k of the task is about to issue its first store command
Entering(tk, k) ==
  /\ tk.status = "run"
  /\ tk.ci = k
  /\ tk.pc = FirstPc(tk.script[k].fn)
  /\ tk.i = 1

\* C23: a membership record goes active, inactive and active again as one
\* record: after a roster with the member it is active, after a later roster
\* without the member it is inactive, and a still later roster or
\* handleMembersAdded call with the member makes that record active again;
\* no step of these calls leaves a pair with more than one record.
C23_Lifecycle ==
  /\ [](\A t \in TaskIds :
          LET tk == tasks[t]
              g  == tk.script[1].groupId
              M1 == Range(tk.script[1].members)
              M2 == Range(tk.script[2].members)
              M3 == Range(tk.script[3].members)
          IN Lifecycle(tk) =>
               /\ Entering(tk, 2) => \A p \in M1 : IsActive(users, p, g)
               /\ Entering(tk, 3) => \A p \in M1 \ M2 : IsInactive(users, p, g)
               /\ tk.status = "done" =>
                    \A p \in (M1 \ M2) \cap M3 : IsActive(users, p, g))
  /\ [][\A t \in TaskIds : \A p \in Phones :
          LET g == tasks[t].script[1].groupId IN
            (Lifecycle(tasks[t]) /\ Running(t) /\ UserMatches(users, p, g) # {}) =>
               /\ Cardinality(UserMatches(users', p, g)) = 1
               /\ Cardinality(UsersOf(users', g)) >= Cardinality(UsersOf(users, g))]_vars

\* 222 was in the first roster, not in the second, and has been added again
\* by handleMembersAdded: the group has its two records, both active.
C23_Witness ==
  /\ Lifecycle(tasks[1])
  /\ tasks[1].status = "done"
  /\ tasks[1].script[1].members = <<"111", "222">>
  /\ tasks[1].script[2].members = <<"111">>
  /\ tasks[1].script[3] = Added(G1, <<"222">>)
  /\ lastDb = DbCmd("write", "User", <<"222", G1>>)
  /\ users = {UserDoc("111", G1, TRUE), UserDoc("222", G1, TRUE)}

\* The (phoneNumber, groupId) pairs that have a record
UserKeys(U) == {<<d.phoneNumber, d.groupId>> : d \in U}

\* C30: a step of handleMembersRemoved on a monitored group creates no
\* membership record: the pairs that have a record are the same before and
\* after, an identifier without a record has none afterwards, and a record
\* that is inactive stays inactive.
C30_RemovedNeverCreates ==
  [][\A t \in TaskIds :
       (At(t, "handleMembersRemoved", "members") /\ tasks'[t] # tasks[t]) =>
          LET g == CurCall(tasks[t]).groupId
              p == CurCall(tasks[t]).members[tasks[t].i]
          IN /\ UserKeys(users') = UserKeys(users)
             /\ UserMatches(users, p, g) = {} => UserMatches(users', p, g) = {}
             /\ IsInactive(users, p, g) => IsInactive(users', p, g)
             /\ \A d \in users' : d.isActive => d \in users]_vars

\* handleMembersRemoved(g, [111, 222]) has returned on the monitored g where
\* only 111 had a record: 111 is inactive and 222 has no record; the last
\* command matched no record.
C30_Witness ==
  /\ tasks[1].status = "done"
  /\ tasks[1].skipped = {}
  /\ tasks[1].script = <<Sync(G1, <<"111">>), Removed(G1, <<"111", "222">>)>>
  /\ lastDb = DbCmd("miss", "User", <<"222", G1>>)
  /\ users = {UserDoc("111", G1, FALSE)}

\* Slot t runs removeGroupFromMonitored(g) first
Unregisters(tk) ==
  /\ Len(tk.script) >= 1
  /\ tk.script[1].fn = "removeGroupFromMonitored"

\* C29: removeGroupFromMonitored(g), not interleaved with another caller:
\* the set changes only after the persisted write and only by losing g; when
\* the call has returned an existing Group record of g has the monitored
\* flag false and g is not in the set; no step of it changes a membership
\* record, creates a Group record or changes the record of another group;
\* when the write fails the set is as it was; and a syncGroupMembers,
\* handleMembersAdded or handleMembersRemoved on g that follows is skipped
\* by its guard, with no store command.
C29_RemoveLockstep ==
  /\ [](\A t \in TaskIds :
          LET tk == tasks[t]
              g  == tk.script[1].groupId
          IN Unregisters(tk) =>
               /\ (tk.status = "done" \/ tk.ci > 1) =>
                    /\ g \notin monitoredGroupsCache
                    /\ \A d \in GroupMatches(groups, g) : ~d.isMonitored
               /\ (tk.status = "done" /\ Len(tk.script) = 2) =>
                    /\ tk.skipped = {2}
                    /\ lastDb.kind = "none")
  /\ [][\A t \in TaskIds :
          LET tk == tasks[t]
              g  == tk.script[1].groupId
          IN (Unregisters(tk) /\ Running(t) /\ tasks'[t] # tk) =>
               /\ users' = users
               /\ {d.groupId : d \in groups'} = {d.groupId : d \in groups}
               /\ {d \in groups' : d.groupId # g} = {d \in groups : d.groupId # g}
               /\ tk.pc = "update" =>
                    /\ monitoredGroupsCache' = monitoredGroupsCache
                    /\ tasks'[t].status = "threw" => groups' = groups
               /\ tk.pc = "cache" =>
                    /\ monitoredGroupsCache' = monitoredGroupsCache \ {g}
                    /\ groups' = groups]_vars

\* The group with the active member 111 has been unregistered and the
\* syncGroupMembers(g, [222]) that followed was skipped: the Group record is
\* kept with the flag false, 111 is still active, 222 has no record.
C29_Witness ==
  /\ tasks[1].status = "done"
  /\ tasks[1].script = <<Remove(G1), Sync(G1, <<"222">>)>>
  /\ tasks[1].skipped = {2}
  /\ groups = {GroupDoc(G1, FALSE, NeolFriends)}
  /\ monitoredGroupsCache = {}
  /\ users = {UserDoc("111", G1, TRUE)}

(***************************************************************************)
(* Participant events on a group that is not monitored, under              *)
(* SpecParticipants                                                        *)
(***************************************************************************)
\* The invocation is of a participants event that found its group outside
\* the monitored set (the path with the metadata fetch, inside the try)
OnUnmonitored(tk) == tk.h = "group-participants.update" /\ tk.catches

\* The metadata the invocation fetched matches the keyword
FetchedTarget(tk) ==
  /\ tk.response # <<>>
  /\ isTargetGroup(tk.response[1].subject)

\* The membership records of g after the roster was reconciled on a group
\* without records and the event's change applied
AfterEvent(g, roster, action, P) ==
  CASE action = "add" -> {UserDoc(p, g, TRUE) : p \in roster \cup P}
    [] action = "remove" -> {UserDoc(p, g, p \notin P) : p \in roster}
    [] OTHER -> {UserDoc(p, g, TRUE) : p \in roster}

\* C24: a participants event on a group outside the monitored set fetches
\* the metadata; with a name that matches the keyword the handler registers
\* the group, then reconciles the fetched roster, then applies the event's
\* add or remove, in that order (no membership record is written before the
\* group is in the set, the event's change is applied to the reconciled
\* roster); with a name that does not match, or no metadata, no Group
\* record, membership record or monitored-set entry is created or changed.
C24_UnmonitoredParticipants ==
  /\ [](\A t \in TaskIds :
          LET tk == tasks[t]
              ev == tk.ev
              md == tk.response[1]
          IN OnUnmonitored(tk) =>
               /\ ~FetchedTarget(tk) => tk.script = <<>>
               /\ FetchedTarget(tk) =>
                    /\ Len(tk.script) = IF ev.action \in {"add", "remove"} THEN 3 ELSE 2
                    /\ tk.ci = 1 =>
                         UsersOf(users, ev.id) = {}
                    /\ (tk.status = "run" /\ tk.ci = 3 /\ tk.i = 1) =>
                         /\ ev.id \in monitoredGroupsCache
                         /\ UsersOf(users, ev.id) =
                              {UserDoc(p, ev.id, TRUE) : p \in Range(md.participants)}
                    /\ (tk.status = "done" /\ tk.faults = 0) =>
                         /\ tk.skipped = {}
                         /\ ev.id \in monitoredGroupsCache
                         /\ GroupDoc(ev.id, TRUE, md.subject) \in groups
                         /\ UsersOf(users, ev.id) =
                              AfterEvent(ev.id, Range(md.participants), ev.action,
                                         Range(ev.participants)))
  /\ [][\A t \in TaskIds :
          (OnUnmonitored(tasks'[t]) /\ tasks'[t] # tasks[t]) =>
             /\ tasks'[t].script = <<>> =>
                  UNCHANGED <<users, groups, monitoredGroupsCache>>
             /\ users' # users => tasks'[t].ev.id \in monitoredGroupsCache]_vars

\* The remove event of 111 came for the unmonitored group named "Neol
\* Friends" with the roster 111, 222: the group is registered, 222 is active
\* and 111, reconciled as active, has then been set inactive.
C24_Witness ==
  /\ OnUnmonitored(tasks[1])
  /\ tasks[1].status = "done"
  /\ tasks[1].faults = 0
  /\ tasks[1].ev.action = "remove"
  /\ tasks[1].ev.participants = <<"111">>
  /\ tasks[1].response = <<Metadata(G1, NeolFriends, <<"111", "222">>)>>
  /\ groups = {GroupDoc(G1, TRUE, NeolFriends)}
  /\ monitoredGroupsCache = {G1}
  /\ users = {UserDoc("111", G1, FALSE), UserDoc("222", G1, TRUE)}
  /\ lastDb = DbCmd("write", "User", <<"111", G1>>)

(***************************************************************************)
(* Rename events and added-to-group events, under SpecEvents               *)
(***************************************************************************)
Renames(tk) == tk.h = "groups.update"

\* The records of g are those of a reconciled roster: every member active,
\* no one else active
RosterReconciled(U, g, roster) ==
  /\ \A p \in roster : IsActive(U, p, g)
  /\ \A d \in UsersOf(U, g) : d.isActive => d.phoneNumber \in roster

\* C25: a rename event for a group outside the monitored set registers the
\* group, under the new name, and reconciles the fetched roster exactly when
\* the new name matches the keyword and the metadata is fetched: a rename to
\* a name that does not match returns at once and changes nothing, a rename
\* without metadata changes nothing, and nothing of an unmonitored group is
\* written by a rename before the metadata is there.
C25_RenameUnmonitored ==
  /\ [](\A t \in TaskIds :
          LET tk == tasks[t]
              ev == tk.ev
          IN (Renames(tk) /\ tk.catches) =>
               /\ isTargetGroup(ev.subject)
               /\ tk.response = <<>> => tk.script = <<>>
               /\ tk.response # <<>> =>
                    tk.script = RegisterAndSync(ev.id, ev.subject,
                                                tk.response[1].participants)
               /\ (tk.status = "done" /\ tk.faults = 0) =>
                    /\ tk.response # <<>>
                    /\ tk.skipped = {}
                    /\ ev.id \in monitoredGroupsCache
                    /\ GroupMatches(groups, ev.id) = {GroupDoc(ev.id, TRUE, ev.subject)}
                    /\ RosterReconciled(users, ev.id,
                                        Range(tk.response[1].participants)))
  /\ [][\A t \in TaskIds :
          LET tk == tasks'[t]
          IN (Renames(tk) /\ tk # tasks[t] /\ tk.ev.id \notin monitoredGroupsCache) =>
               /\ ~isTargetGroup(tk.ev.subject) =>
                    /\ tk = Returned("groups.update", tk.ev)
                    /\ UNCHANGED <<users, groups, monitoredGroupsCache>>
               /\ tk.response = <<>> =>
                    UNCHANGED <<users, groups, monitoredGroupsCache>>
               /\ <<users, groups, monitoredGroupsCache>>'
                     # <<users, groups, monitoredGroupsCache>> =>
                    tk.catches /\ tk.response # <<>>]_vars

\* The unmonitored first group was renamed to "Neol Friends"; the metadata
\* fetched still carried the old name and the roster 111, 222: the group is
\* registered under the new name with both members active.
C25_Witness ==
  /\ Renames(tasks[1])
  /\ tasks[1].catches
  /\ tasks[1].status = "done"
  /\ tasks[1].faults = 0
  /\ tasks[1].ev.subject = NeolFriends
  /\ tasks[1].response = <<Metadata(G1, RandomChat, <<"111", "222">>)>>
  /\ groups = {GroupDoc(G1, TRUE, NeolFriends)}
  /\ monitoredGroupsCache = {G1}
  /\ users = {UserDoc("111", G1, TRUE), UserDoc("222", G1, TRUE)}

\* C26: a rename event for a monitored group makes the persisted name of the
\* group the new name, keeps the group monitored, and no step of it creates
\* or modifies a membership record or changes the monitored set; a group
\* update without a subject returns at once and changes no persisted state.
C26_RenameMonitored ==
  /\ [](\A t \in TaskIds :
          LET tk == tasks[t]
              ev == tk.ev
          IN (Renames(tk) /\ ~tk.catches) =>
               /\ tk.script # <<>> =>
                    /\ tk.script = <<Add(ev.id, ev.subject)>>
                    /\ ev.id \in monitoredGroupsCache
               /\ (tk.script # <<>> /\ tk.status = "done" /\ tk.faults = 0) =>
                    GroupMatches(groups, ev.id) = {GroupDoc(ev.id, TRUE, ev.subject)})
  /\ [][\A t \in TaskIds :
          LET tk == tasks'[t]
          IN (Renames(tk) /\ ~tk.catches /\ tk # tasks[t]) =>
               /\ users' = users
               /\ monitoredGroupsCache' = monitoredGroupsCache
               /\ {d \in groups' : d.groupId # tk.ev.id}
                    = {d \in groups : d.groupId # tk.ev.id}
               /\ Falsy(tk.ev.subject) =>
                    /\ tk = Returned("groups.update", tk.ev)
                    /\ groups' = groups]_vars

\* The second group, monitored under the name "Random Chat" with its member
\* 111, was renamed to "Neol Friends": the record carries the new name.
C26_Witness ==
  /\ Renames(tasks[1])
  /\ ~tasks[1].catches
  /\ tasks[1].status = "done"
  /\ tasks[1].faults = 0
  /\ tasks[1].ev.id = G2
  /\ tasks[1].ev.subject = NeolFriends
  /\ lastDb = NoDb
  /\ groups = {GroupDoc(G2, TRUE, NeolFriends)}
  /\ monitoredGroupsCache = {G2}
  /\ users = {UserDoc("111", G2, TRUE)}

Upserts(tk) == tk.h = "groups.upsert"

\* C27: an added-to-group event whose group name matches the keyword
\* registers the group and reconciles the roster only when the event carries
\* a non-empty participant list: with an empty list no step of it touches a
\* membership record; an event whose group name does not match returns at
\* once and changes nothing.
C27_GroupsUpsert ==
  /\ [](\A t \in TaskIds :
          LET tk == tasks[t]
              ev == tk.ev
          IN Upserts(tk) =>
               /\ ~isTargetGroup(ev.subject) => tk = Returned("groups.upsert", ev)
               /\ (isTargetGroup(ev.subject) /\ tk.status = "done" /\ tk.faults = 0) =>
                    /\ ev.id \in monitoredGroupsCache
                    /\ GroupMatches(groups, ev.id) = {GroupDoc(ev.id, TRUE, ev.subject)}
                    /\ Len(ev.participants) > 0 =>
                         RosterReconciled(users, ev.id, Range(ev.participants)))
  /\ [][\A t \in TaskIds :
          LET tk == tasks'[t]
          IN (Upserts(tk) /\ tk # tasks[t]) =>
               /\ ~isTargetGroup(tk.ev.subject) =>
                    UNCHANGED <<users, groups, monitoredGroupsCache>>
               /\ Len(tk.ev.participants) = 0 =>
                    /\ users' = users
                    /\ lastDb'.coll # "User"]_vars

\* The first group, monitored with the active members 111 and 222, came in
\* an added-to-group event without participants: both are still active.
C27_Witness ==
  /\ Upserts(tasks[1])
  /\ tasks[1].status = "done"
  /\ tasks[1].faults = 0
  /\ tasks[1].ev.id = G1
  /\ tasks[1].ev.subject = NeolFriends
  /\ tasks[1].ev.participants = <<>>
  /\ groups = {GroupDoc(G1, TRUE, NeolFriends)}
  /\ monitoredGroupsCache = {G1}
  /\ users = {UserDoc("111", G1, TRUE), UserDoc("222", G1, TRUE)}

(***************************************************************************)
(* Admin changes (promote, demote), under SpecParticipants                 *)
(***************************************************************************)
\* The invocation is of a participants event with an admin change
AdminChange(tk) ==
  /\ tk.h = "group-participants.update"
  /\ tk.ev.action \in {"promote", "demote"}

\* C31 as stated: no step of the handler of a promote or demote event
\* changes a Group record, a membership record or the monitored set.
C31_AdminChangesNothing ==
  [][\A t \in TaskIds :
       (AdminChange(tasks'[t]) /\ tasks'[t] # tasks[t]) =>
          UNCHANGED <<users, groups, monitoredGroupsCache>>]_vars

\* C31 amended: a promote or demote event on a monitored group returns at
\* once with no store command and changes nothing; on a group outside the
\* monitored set it changes nothing when no metadata is fetched or the
\* fetched name does not match the keyword; when the fetched name matches,
\* the group is registered and the fetched roster reconciled as for any
\* participants event, and nothing more: the participants of the event get
\* no write of their own, and only records of that group change.
C31_AdminChange ==
  /\ [][\A t \in TaskIds :
          LET tk == tasks'[t]
          IN (AdminChange(tk) /\ tk # tasks[t]) =>
               /\ ~tk.catches =>
                    /\ tk.status = "done"
                    /\ tk.script = <<>>
                    /\ lastDb'.kind = "none"
               /\ (~tk.catches \/ ~FetchedTarget(tk)) =>
                    UNCHANGED <<users, groups, monitoredGroupsCache>>
               /\ {d \in users' : d.groupId # tk.ev.id}
                    = {d \in users : d.groupId # tk.ev.id}
               /\ {d \in groups' : d.groupId # tk.ev.id}
                    = {d \in groups : d.groupId # tk.ev.id}
               /\ monitoredGroupsCache' \ {tk.ev.id} = monitoredGroupsCache \ {tk.ev.id}]_vars
  /\ [](\A t \in TaskIds :
          LET tk == tasks[t]
          IN (AdminChange(tk) /\ tk.catches /\ FetchedTarget(tk)) =>
               /\ tk.script = RegisterAndSync(tk.ev.id, tk.response[1].subject,
                                              tk.response[1].participants)
               /\ (tk.status = "done" /\ tk.faults = 0) =>
                    /\ tk.ev.id \in monitoredGroupsCache
                    /\ UsersOf(users, tk.ev.id) =
                         {UserDoc(p, tk.ev.id, TRUE) :
                            p \in Range(tk.response[1].participants)})

\* The promotion of 222 came for the unmonitored group named "Neol Friends"
\* whose roster is 111: the group is registered with 111 active, and 222 has
\* no record.
C31_Witness ==
  /\ AdminChange(tasks[1])
  /\ tasks[1].catches
  /\ tasks[1].status = "done"
  /\ tasks[1].faults = 0
  /\ tasks[1].ev.action = "promote"
  /\ tasks[1].ev.participants = <<"222">>
  /\ tasks[1].response = <<Metadata(G1, NeolFriends, <<"111">>)>>
  /\ groups = {GroupDoc(G1, TRUE, NeolFriends)}
  /\ monitoredGroupsCache = {G1}
  /\ users = {UserDoc("111", G1, TRUE)}

(***************************************************************************)
(* SpecStatusRace: a caller computes the status report while another       *)
(* caller reconciles the first group or adds members to it; their store    *)
(* commands interleave.                                                    *)
(***************************************************************************)
StatusRaceScripts ==
  {<<Add(G1, NeolFriends)>>, <<Status>>}
    \cup {<<Sync(G1, m)>> : m \in PairRosters}
    \cup {<<Added(G1, m)>> : m \in PairRosters}

StartStatusRace ==
  \E t \in TaskIds : \E script \in StatusRaceScripts : StartScript(t, script)

NextStatusRace ==
  \/ StartStatusRace
  \/ \E t \in TaskIds : AddUpsert(t)
  \/ \E t \in TaskIds : AddCache(t)
  \/ \E t \in TaskIds : SyncFind(t)
  \/ \E t \in TaskIds : SyncUpsert(t)
  \/ \E t \in TaskIds : SyncDeactivate(t)
  \/ \E t \in TaskIds : AddedUpsert(t)
  \/ \E t \in TaskIds : StatusGroups(t)
  \/ \E t \in TaskIds : StatusCountTotal(t)
  \/ \E t \in TaskIds : StatusCountActive(t)

SpecStatusRace == Init /\ [][NextStatusRace]_vars

\* C35: every detail entry of a status report has
\* 0 <= activeMembers <= totalMembers and inactiveMembers >= 0, also when
\* membership writes of another caller land between the two count queries.
C35_CountsConsistent ==
  \A t \in TaskIds :
    \A k \in 1..Len(tasks[t].result.groupDetails) :
      LET detail == tasks[t].result.groupDetails[k] IN
        /\ 0 <= detail.activeMembers
        /\ detail.activeMembers <= detail.totalMembers
        /\ detail.inactiveMembers >= 0

(***************************************************************************)
(* The reconnect after a close, under SpecConnection                       *)
(***************************************************************************)
\* C36: after a non-logout close the process is never at rest with the
\* socket closed, no reconnect pending and the process still running, also
\* when the connect() of the scheduled reconnect fails.
C36_NeverAtRest ==
  (Alive /\ client.socket = "closed") => client.timer

\* The step is the listener's line after the handler of an open event
ResetsCounter ==
  \E t \in TaskIds : ResetPending(t) /\ tasks'[t].pc = "end"

\* C38: the reconnect counter is always in 0..MAX_RECONNECT_ATTEMPTS; it
\* changes only by the increment of a non-logout close that schedules a
\* reconnect and by the reset to 0 that follows the handling of an open
\* event; the reconnect scheduled with the counter at n has the delay
\* min(n * 1000, 10000), which lies in 1000..10000 and is not below the delay
\* of the reconnect scheduled before it since the reset.
C38_CounterAndDelay ==
  /\ [](/\ client.reconnectAttempts \in 0..MAX_RECONNECT_ATTEMPTS
        /\ client.reconnectAttempts > 0 =>
             client.delay = Min(client.reconnectAttempts * 1000, 10000))
  /\ [][ResetsCounter => client'.reconnectAttempts = 0]_vars
  /\ [][client'.reconnectAttempts # client.reconnectAttempts =>
          \/ ResetsCounter /\ client'.reconnectAttempts = 0
          \/ /\ ClosesOnError
             /\ client'.timer
             /\ client'.reconnectAttempts = client.reconnectAttempts + 1]_vars
  /\ [][(ClosesOnError /\ ~client'.exited) =>
          /\ client'.reconnectAttempts = client.reconnectAttempts + 1
          /\ client'.delay = Min(client'.reconnectAttempts * 1000, 10000)
          /\ client'.delay \in 1000..10000
          /\ client.reconnectAttempts > 0 => client'.delay >= client.delay]_vars

\* The tenth reconnect since the reset is scheduled, with the largest delay.
C38_Witness ==
  /\ Alive
  /\ client.timer
  /\ client.socket = "closed"
  /\ client.reconnectAttempts = MAX_RECONNECT_ATTEMPTS
  /\ client.delay = 10000

(***************************************************************************)
(* Store errors inside addGroupToMonitored and syncGroupMembers, under     *)
(* SpecCalls                                                               *)
(***************************************************************************)
\* The call of slot t has failed: its caller got the error
Failed(tk) == tk.status \in {"threw", "caught"}

\* The step is a store error in the call fn of slot t
FailsIn(t, fn) ==
  /\ Running(t)
  /\ tasks[t].ci \in 1..Len(tasks[t].script)
  /\ CurCall(tasks[t]).fn = fn
  /\ lastDb'.kind = "error"
  /\ tasks'[t] # tasks[t]

\* C33: when the store write of addGroupToMonitored(g, name) fails the error
\* reaches the caller and neither the monitored set nor a Group record has
\* changed; g enters the set only in the step after the upsert, when the
\* Group record of g is persisted with the monitored flag.
C33_AddFailure ==
  /\ [][\A t \in TaskIds : FailsIn(t, "addGroupToMonitored") =>
          /\ tasks[t].pc = "upsert"
          /\ Failed(tasks'[t])
          /\ tasks'[t].ci = tasks[t].ci
          /\ monitoredGroupsCache' = monitoredGroupsCache
          /\ groups' = groups]_vars
  /\ [][\A g \in monitoredGroupsCache' \ monitoredGroupsCache :
          /\ PersistedMonitored(groups, g)
          /\ \E t \in TaskIds :
               /\ At(t, "addGroupToMonitored", "cache")
               /\ CurCall(tasks[t]).groupId = g]_vars

\* addGroupToMonitored of the first group has failed at its upsert: the
\* caller has the error, there is no Group record and the set is empty.
C33_Witness ==
  /\ tasks[1].script = <<Add(G1, NeolFriends)>>
  /\ tasks[1].status = "threw"
  /\ tasks[1].pc = "upsert"
  /\ lastDb = DbCmd("error", "-", <<>>)
  /\ groups = {}
  /\ monitoredGroupsCache = {}

\* C34: a store error inside syncGroupMembers(g, M) reaches the caller at
\* once and undoes nothing: the step of the error changes no record, the
\* failed caller issues no further command (the calls after the failed one
\* are not made), the members upserted before the error are active, and
\* after an error of the read or of an upsert every record that the call
\* read as active is still active (none was deactivated).
C34_SyncFailure ==
  /\ [][\A t \in TaskIds : FailsIn(t, "syncGroupMembers") =>
          /\ Failed(tasks'[t])
          /\ tasks'[t].ci = tasks[t].ci
          /\ tasks'[t].pc = tasks[t].pc
          /\ UNCHANGED <<users, groups, monitoredGroupsCache>>]_vars
  /\ [][\A t \in TaskIds :
          (Failed(tasks[t]) /\ tasks'[t] # tasks[t]) =>
             /\ tasks'[t].ci <= 1 \/ tasks'[t].skipped # {}
             /\ tasks'[t].faults = 0
             /\ lastDb'.kind = "none"
             /\ UNCHANGED <<users, groups, monitoredGroupsCache>>]_vars
  /\ [](\A t \in TaskIds :
          LET tk == tasks[t] IN
            (Failed(tk) /\ CurCall(tk).fn = "syncGroupMembers") =>
               LET g == CurCall(tk).groupId
                   M == CurCall(tk).members
               IN /\ tk.pc = "members" =>
                       \A k \in 1..(tk.i - 1) : IsActive(users, M[k], g)
                  /\ tk.pc \in {"find", "members"} =>
                       \A k \in 1..Len(tk.existingMembers) :
                          tk.existingMembers[k].isActive =>
                             IsActive(users, tk.existingMembers[k].phoneNumber, g)
                  /\ tk.pc = "inactive" =>
                       \A k \in 1..Len(M) : IsActive(users, M[k], g))

\* syncGroupMembers(g, [222]) read 111 active and failed at its upsert of
\* 222: 111 is still active, 222 has no record, and the call that was to
\* follow has not been made.
C34_Witness ==
  /\ Lifecycle(tasks[1])
  /\ tasks[1].status = "threw"
  /\ tasks[1].ci = 2
  /\ tasks[1].pc = "members"
  /\ tasks[1].script[1].members = <<"111">>
  /\ tasks[1].script[2].members = <<"222">>
  /\ tasks[1].existingMembers = <<UserDoc("111", G1, TRUE)>>
  /\ users = {UserDoc("111", G1, TRUE)}

(***************************************************************************)
(* Errors inside the connection-open scan, under SpecScan                  *)
(***************************************************************************)
Scans(tk) == tk.h = "connection.open"

\* C39: the connection-open scan never ends by throwing to its caller, and
\* it stops at its first failure: the step of the error changes nothing and
\* ends the scan where it is, the ended scan issues no further command (no
\* group later in the enumeration is registered or reconciled by it), and
\* the groups it processed before the failure are registered, with their
\* rosters active.
C39_ScanStopsAtFailure ==
  /\ [](\A t \in TaskIds : Scans(tasks[t]) => tasks[t].status # "threw")
  /\ [][\A t \in TaskIds :
          (Scans(tasks[t]) /\ Running(t) /\ tasks'[t] # tasks[t]
             /\ (lastDb'.kind = "error" \/ tasks'[t].faults > tasks[t].faults)) =>
             /\ tasks'[t].status = "caught"
             /\ tasks'[t].ci = tasks[t].ci
             /\ UNCHANGED <<users, groups, monitoredGroupsCache>>]_vars
  /\ [][\A t \in TaskIds :
          (Scans(tasks[t]) /\ tasks[t].status = "caught" /\ tasks'[t] # tasks[t]) =>
             /\ tasks'[t].pc = "fetchAll"
             /\ tasks'[t].script = <<>>
             /\ lastDb'.kind = "none"
             /\ UNCHANGED <<users, groups, monitoredGroupsCache>>]_vars
  /\ [](\A t \in TaskIds :
          LET tk == tasks[t] IN
            (Scans(tk) /\ tk.status = "caught") =>
               \A k \in 1..Len(tk.script) :
                 k < tk.ci =>
                   LET c == tk.script[k] IN
                     /\ c.groupId \in monitoredGroupsCache
                     /\ PersistedMonitored(groups, c.groupId)
                     /\ c.fn = "syncGroupMembers" =>
                          /\ k \notin tk.skipped
                          /\ \A p \in Range(c.members) : IsActive(users, p, c.groupId))

\* The scan found two groups named "Neol Friends"; the first is registered
\* with its member active; the registration of the second failed and the
\* scan ended there: the second group has no record and is not in the set.
C39_Witness ==
  /\ Scans(tasks[1])
  /\ tasks[1].status = "caught"
  /\ tasks[1].ci = 3
  /\ tasks[1].pc = "upsert"
  /\ tasks[1].response = <<Metadata(G1, NeolFriends, <<"111">>),
                           Metadata(G2, NeolFriends, <<"111">>)>>
  /\ groups = {GroupDoc(G1, TRUE, NeolFriends)}
  /\ monitoredGroupsCache = {G1}
  /\ users = {UserDoc("111", G1, TRUE)}

(***************************************************************************)
(* Registration before reconciliation, and the group a step concerns,      *)
(* under SpecEvents                                                        *)
(***************************************************************************)
\* Slot t is inside the call at its script index
InCall(tk) == tk.status = "run" /\ tk.ci \in 1..Len(tk.script)

\* C32: in every path of the event handlers that reconciles a roster, the
\* syncGroupMembers call follows the addGroupToMonitored of the same group,
\* runs only when that call has succeeded (no error before it in the
\* invocation) and finds the group in the monitored set: no reconcile is
\* skipped by its guard; an invocation that has failed issues no further
\* command, so after a failed registration syncGroupMembers is not called.
C32_RegisteredBeforeSync ==
  /\ [](\A t \in TaskIds :
          LET tk == tasks[t] IN
            /\ \A k \in tk.skipped : tk.script[k].fn # "syncGroupMembers"
            /\ (InCall(tk) /\ CurCall(tk).fn = "syncGroupMembers") =>
                 /\ tk.ci > 1
                 /\ tk.script[tk.ci - 1].fn = "addGroupToMonitored"
                 /\ tk.script[tk.ci - 1].groupId = CurCall(tk).groupId
                 /\ CurCall(tk).groupId \in monitoredGroupsCache
                 /\ PersistedMonitored(groups, CurCall(tk).groupId)
                 /\ tk.faults = 0)
  /\ [][\A t \in TaskIds :
          (Failed(tasks[t]) /\ tasks'[t] # tasks[t]) =>
             /\ tasks'[t].faults = 0
             /\ tasks'[t].ci <= 1
             /\ lastDb'.kind = "none"
             /\ UNCHANGED <<users, groups, monitoredGroupsCache>>]_vars

\* The 'sync' command in the first group, named "Random Chat": the group is
\* in the set and the reconcile has upserted the first member of the roster.
C32_Witness ==
  /\ tasks[1].h = "sync"
  /\ At(1, "syncGroupMembers", "members")
  /\ tasks[1].i = 2
  /\ tasks[1].skipped = {}
  /\ tasks[1].response = <<Metadata(G1, RandomChat, <<"111", "222">>)>>
  /\ groups = {GroupDoc(G1, TRUE, RandomChat)}
  /\ monitoredGroupsCache = {G1}
  /\ users = {UserDoc("111", G1, TRUE)}

\* What is stored of the groups other than g
OtherGroups(U, G, cache, g) ==
  <<{d \in U : d.groupId # g}, {d \in G : d.groupId # g}, cache \ {g}>>

\* C37: every step that changes a membership record, a Group record or the
\* monitored set is a step of a call on one group g, which is the group of
\* the event handled (or a group of the scan's enumeration), and it leaves
\* the membership records, the Group record and the monitored-set entry of
\* every other group as they were.
C37_OtherGroupsUntouched ==
  [][<<users, groups, monitoredGroupsCache>>' # <<users, groups, monitoredGroupsCache>> =>
       \E t \in TaskIds :
         /\ InCall(tasks[t])
         /\ tasks'[t] # tasks[t]
         /\ CurCall(tasks[t]).fn \in {"addGroupToMonitored", "syncGroupMembers",
                                      "handleMembersAdded", "handleMembersRemoved"}
         /\ LET g == CurCall(tasks[t]).groupId IN
              /\ Scans(tasks[t]) \/ g = tasks[t].ev.id
              /\ OtherGroups(users', groups', monitoredGroupsCache', g)
                   = OtherGroups(users, groups, monitoredGroupsCache, g)
              /\ \A d \in (users' \ users) \cup (users \ users') : d.groupId = g]_vars

\* 111 is a member of both monitored groups; its removal from the first has
\* been handled: its record in the second is still active.
C37_Witness ==
  /\ tasks[1].h = "group-participants.update"
  /\ tasks[1].status = "done"
  /\ tasks[1].faults = 0
  /\ tasks[1].ev.id = G1
  /\ tasks[1].ev.action = "remove"
  /\ tasks[1].ev.participants = <<"111">>
  /\ lastDb = DbCmd("write", "User", <<"111", G1>>)
  /\ monitoredGroupsCache = {G1, G2}
  /\ users = {UserDoc("111", G1, FALSE), UserDoc("111", G2, TRUE)}

====
